---- MODULE Spec2Model ----
(***************************************************************************)
(* Personal trading journal: the trade store behind the /trades routes     *)
(* (create, update, close, delete) and the analytics engine of             *)
(* utils/calculations.ts (calculatePnL, calculateMetrics,                  *)
(* calculateMaxDrawdown, detectBehaviorWarnings) with the /behavior and    *)
(* settings routes that feed it.                                           *)
(*                                                                         *)
(* Numbers.  Prices, quantities, fees and pnl are integers (currency in    *)
(* its smallest unit).  Every value the code obtains by a division is an   *)
(* exact rational <<n, d>> in lowest terms with d > 0; <<1, 0>> is         *)
(* +Infinity.  A nullable column is <<>> (null) or <<v>>.  Instants are     *)
(* minutes since an epoch that starts a local day.                         *)
(***************************************************************************)
EXTENDS Integers, Sequences, FiniteSets, TLC

VARIABLES
    trades,     \* the Trade table: id -> row, for the rows that exist
    res,        \* the last request the /trades router answered, and the status it sent
    pnlArgs,    \* arguments of a calculatePnL call
    pnlOut,     \* its return value, <<>> before the call
    mTrades,    \* the Trade[] handed to calculateMetrics
    locals,     \* calculateMetrics' unrounded locals at its return, <<>> before the call
    metrics,    \* the PerformanceMetrics it returned, <<>> before the call
    bTrades,    \* the Trade[] handed to detectBehaviorWarnings
    bBalance,   \* its accountBalance argument, <<>> when the caller passes none
    time,       \* the clock
    calls,      \* the last two calls of detectBehaviorWarnings, latest first:
                \* the clock at the call and the BehaviorWarning[] returned
    rows,       \* the caller's rows of the Trade table read by GET /behavior
    userBalance, \* User.accountBalance of the caller
    requests,   \* the /trades requests in flight or answered, by connection: what
                \* findFirst gave each, and the status sent (0 until it is sent)
    report,     \* the last /analytics report sent, <<>> before it
    tz          \* the server's time zone: minutes its local time is ahead of UTC

vars == <<trades, res, pnlArgs, pnlOut, mTrades, locals, metrics,
          bTrades, bBalance, time, calls, rows, userBalance, requests, report, tz>>

storeVars == <<trades, res, requests>>
pnlVars == <<pnlArgs, pnlOut>>
metricVars == <<mTrades, locals, metrics>>
behaviorVars == <<bTrades, bBalance, time, calls, rows, userBalance, report, tz>>

----------------------------------------------------------------------------
(* Bounds of the model *)

MaxPrice == 2       \* entryPrice, exitPrice in 1..MaxPrice
MaxQty == 2         \* quantity in 1..MaxQty
MaxFees == 1        \* fees in 0..MaxFees
MaxTime == 1        \* timestamps 1..MaxTime
MaxEdits == 1       \* fields present in the body of one PUT /:id
MaxLen == 4         \* rows in one Trade[] handed to calculateMetrics
MaxWarnLen == 2     \* rows in one Trade[] handed to detectBehaviorWarnings
MaxTicks == 2       \* advances of the clock
MaxDay == 16        \* trades of one kind in a Trade[] of the trades of few days
MaxRows == 5        \* rows of the caller in the Trade table
MaxOpen == 11       \* open trades of today in one Trade[] of open and closed trades
MaxClosed == 3      \* closed trades in it
MaxReport == 3      \* rows of the Trade table the reports read

----------------------------------------------------------------------------
(* Nullable values *)

Null == <<>>
Some(v) == <<v>>
Val(o) == o[1]
Opt(S) == {Null} \cup {Some(v) : v \in S}

\* a ?? b
Coalesce(a, b) == IF a # Null THEN Val(a) ELSE b

\* JavaScript truthiness of a nullable number: null, undefined and 0 are falsy
Truthy(o) == o # Null /\ Val(o) # 0

----------------------------------------------------------------------------
(* Exact arithmetic for the values the code computes with / *)

Abs(n) == IF n < 0 THEN -n ELSE n

RECURSIVE GCD(_, _)
GCD(a, b) == IF b = 0 THEN a ELSE GCD(b, a % b)

Infinity == <<1, 0>>

\* n / d for d # 0, in lowest terms with a positive denominator
Rat(n, d) ==
    LET g == GCD(Abs(n), Abs(d))
        s == IF d < 0 THEN -1 ELSE 1
    IN  <<(s * n) \div g, (s * d) \div g>>

RatInt(n) == <<n, 1>>
RatMul(a, b) == IF a = Infinity \/ b = Infinity THEN Infinity
                ELSE Rat(a[1] * b[1], a[2] * b[2])
RatDiv(a, b) == Rat(a[1] * b[2], a[2] * b[1])
RatSub(a, b) == Rat(a[1] * b[2] - b[1] * a[2], a[2] * b[2])
RatLt(a, b) == IF a = Infinity THEN FALSE
               ELSE IF b = Infinity THEN TRUE
               ELSE a[1] * b[2] < b[1] * a[2]

\* Math.round(x): the integer nearest x, a tie going up (towards +Infinity)
MathRound(x) == (2 * x[1] + x[2]) \div (2 * x[2])

\* Math.round(x * 100) / 100
Round2(x) == IF x = Infinity THEN Infinity ELSE Rat(MathRound(RatMul(x, RatInt(100))), 100)

----------------------------------------------------------------------------
(* utils/calculations.ts: calculatePnL *)

Positions == {"BELI", "JUAL"}

\* calculatePnL with the fees added back on the short side
calculatePnL_shortAddsFees(position, entryPrice, exitPrice, quantity, fees) ==
    LET pnl == IF position = "BELI"
               THEN (exitPrice - entryPrice) * quantity - fees
               ELSE (entryPrice - exitPrice) * quantity + fees
        investment == entryPrice * quantity
        pnlPercent == IF investment > 0
                      THEN RatMul(Rat(pnl, investment), RatInt(100))
                      ELSE RatInt(0)
    IN  [pnl |-> pnl, pnlPercent |-> pnlPercent]

\* calculatePnL with the long formula on both sides
calculatePnL_longOnly(position, entryPrice, exitPrice, quantity, fees) ==
    LET pnl == (exitPrice - entryPrice) * quantity - fees
        investment == entryPrice * quantity
        pnlPercent == IF investment > 0
                      THEN RatMul(Rat(pnl, investment), RatInt(100))
                      ELSE RatInt(0)
    IN  [pnl |-> pnl, pnlPercent |-> pnlPercent]

calculatePnL(position, entryPrice, exitPrice, quantity, fees) ==
    LET pnl == IF position = "BELI"
               THEN (exitPrice - entryPrice) * quantity - fees
               ELSE (entryPrice - exitPrice) * quantity - fees
        investment == entryPrice * quantity
        pnlPercent == IF investment > 0
                      THEN RatMul(Rat(pnl, investment), RatInt(100))
                      ELSE RatInt(0)
    IN  [pnl |-> pnl, pnlPercent |-> pnlPercent]

----------------------------------------------------------------------------
(* routes/trades.ts: the Trade table and its four writing handlers.  The   *)
(* columns asset, market, openedAt, notes and emotionTag are stored as     *)
(* given and read by no handler; they are left out of the rows.            *)
(*                                                                         *)
(* Every handler reads and writes only the row its :id addresses, so the   *)
(* table holds the rows of TradeIds; a request may also address an id of   *)
(* RequestIds that no row has.  An id is a cuid, fresh for every created   *)
(* row; a row created after a delete is a new trade, whatever its label.   *)

Users == {"u1", "u2"}
Prices == 1..MaxPrice
Quantities == 1..MaxQty
Fees == 0..MaxFees
Times == 1..MaxTime

\* request bodies accepted by tradeSchema
CreateBodies ==
    [position : Positions, entryPrice : Prices, exitPrice : Opt(Prices),
     quantity : Quantities, fees : Fees, closedAt : Opt(Times)]

\* tradeSchema.partial(): every field may be absent
Present(data) ==
    Cardinality({f \in {"position", "entryPrice", "exitPrice", "quantity", "fees", "closedAt"} :
                    data[f] # Null})

UpdateBodies ==
    {data \in [position : Opt(Positions), entryPrice : Opt(Prices), exitPrice : Opt(Prices),
               quantity : Opt(Quantities), fees : Opt(Fees), closedAt : Opt(Times)] :
        Present(data) <= MaxEdits}

\* the body of POST /:id/close
CloseBodies == [exitPrice : Prices, closedAt : Opt(Times), fees : Opt(Fees)]

\* findFirst with where: { id } only
findFirst_anyUser(id, userId) ==
    IF id \in DOMAIN trades THEN Some(trades[id]) ELSE Null

\* prisma.trade.findFirst({ where: { id, userId } })
findFirst(id, userId) ==
    IF id \in DOMAIN trades /\ trades[id].userId = userId THEN Some(trades[id]) ELSE Null

\* the row router.post('/') stores
CreatedRow(userId, data) ==
    LET closing == Truthy(data.exitPrice) /\ data.closedAt # Null
        result == calculatePnL(data.position, data.entryPrice, Val(data.exitPrice),
                               data.quantity, data.fees)
    IN  [userId |-> userId,
         position |-> data.position,
         entryPrice |-> data.entryPrice,
         exitPrice |-> data.exitPrice,
         quantity |-> data.quantity,
         fees |-> data.fees,
         closedAt |-> data.closedAt,
         pnl |-> IF closing THEN Some(result.pnl) ELSE Null,
         pnlPercent |-> IF closing THEN Some(result.pnlPercent) ELSE Null,
         isOpen |-> ~closing]

\* router.put('/:id') recomputing pnl but leaving isOpen as it was
UpdatedRow_keepsIsOpen(existingTrade, data) ==
    LET entryPrice == Coalesce(data.entryPrice, existingTrade.entryPrice)
        exitPrice == IF data.exitPrice # Null THEN data.exitPrice ELSE existingTrade.exitPrice
        quantity == Coalesce(data.quantity, existingTrade.quantity)
        fees == Coalesce(data.fees, existingTrade.fees)
        position == Coalesce(data.position, existingTrade.position)
        closedAt == IF data.closedAt # Null THEN data.closedAt ELSE existingTrade.closedAt
        recompute == Truthy(exitPrice) /\ closedAt # Null
        result == calculatePnL(position, entryPrice, Val(exitPrice), quantity, fees)
    IN  [userId |-> existingTrade.userId,
         position |-> position,
         entryPrice |-> entryPrice,
         exitPrice |-> exitPrice,
         quantity |-> quantity,
         fees |-> fees,
         closedAt |-> closedAt,
         pnl |-> IF recompute THEN Some(result.pnl) ELSE existingTrade.pnl,
         pnlPercent |-> IF recompute THEN Some(result.pnlPercent) ELSE existingTrade.pnlPercent,
         isOpen |-> existingTrade.isOpen]

\* the row router.put('/:id') leaves in place of existingTrade: pnl, pnlPercent and
\* isOpen come from the merged values, the other columns from the spread of data
UpdatedRow(existingTrade, data) ==
    LET entryPrice == Coalesce(data.entryPrice, existingTrade.entryPrice)
        exitPrice == IF data.exitPrice # Null THEN data.exitPrice ELSE existingTrade.exitPrice
        quantity == Coalesce(data.quantity, existingTrade.quantity)
        fees == Coalesce(data.fees, existingTrade.fees)
        position == Coalesce(data.position, existingTrade.position)
        closedAt == IF data.closedAt # Null THEN data.closedAt ELSE existingTrade.closedAt
        recompute == Truthy(exitPrice) /\ closedAt # Null
        result == calculatePnL(position, entryPrice, Val(exitPrice), quantity, fees)
    IN  [userId |-> existingTrade.userId,
         position |-> Coalesce(data.position, existingTrade.position),
         entryPrice |-> Coalesce(data.entryPrice, existingTrade.entryPrice),
         exitPrice |-> IF data.exitPrice # Null THEN data.exitPrice ELSE existingTrade.exitPrice,
         quantity |-> Coalesce(data.quantity, existingTrade.quantity),
         fees |-> Coalesce(data.fees, existingTrade.fees),
         closedAt |-> IF data.closedAt # Null THEN data.closedAt ELSE existingTrade.closedAt,
         pnl |-> IF recompute THEN Some(result.pnl) ELSE existingTrade.pnl,
         pnlPercent |-> IF recompute THEN Some(result.pnlPercent) ELSE existingTrade.pnlPercent,
         isOpen |-> IF recompute THEN FALSE ELSE existingTrade.isOpen]

\* router.post('/:id/close') computing with the summed fees but not storing them
ClosedRow_keepsFees(existingTrade, body, now) ==
    LET totalFees == existingTrade.fees + Coalesce(body.fees, 0)
        result == calculatePnL(existingTrade.position, existingTrade.entryPrice,
                               body.exitPrice, existingTrade.quantity, totalFees)
    IN  [existingTrade EXCEPT
            !.exitPrice = Some(body.exitPrice),
            !.closedAt = IF body.closedAt # Null THEN body.closedAt ELSE Some(now),
            !.pnl = Some(result.pnl),
            !.pnlPercent = Some(result.pnlPercent),
            !.isOpen = FALSE]

\* the row router.post('/:id/close') leaves in place of an open existingTrade;
\* now is the value of new Date(), used when the body has no closedAt
ClosedRow(existingTrade, body, now) ==
    LET totalFees == existingTrade.fees + Coalesce(body.fees, 0)
        result == calculatePnL(existingTrade.position, existingTrade.entryPrice,
                               body.exitPrice, existingTrade.quantity, totalFees)
    IN  [existingTrade EXCEPT
            !.exitPrice = Some(body.exitPrice),
            !.closedAt = IF body.closedAt # Null THEN body.closedAt ELSE Some(now),
            !.fees = totalFees,
            !.pnl = Some(result.pnl),
            !.pnlPercent = Some(result.pnlPercent),
            !.isOpen = FALSE]

Put(id, row) == [i \in DOMAIN trades \cup {id} |-> IF i = id THEN row ELSE trades[i]]
Remove(id) == [i \in DOMAIN trades \ {id} |-> trades[i]]

TradeIds == {"t1"}
RequestIds == TradeIds \cup {"t0"}

\* a request (its route, the userId of its token, its :id) and the status sent
Response(op, userId, id, status) == [op |-> op, userId |-> userId, id |-> id, status |-> status]
NoResponse == Response("none", "none", "none", 0)

\* id: the cuid prisma.trade.create gives the new row
CreateTrade(userId, id, data) ==
    /\ id \notin DOMAIN trades
    /\ trades' = Put(id, CreatedRow(userId, data))
    /\ res' = Response("create", userId, id, 201)

UpdateTrade(userId, id, data) ==
    LET existingTrade == findFirst(id, userId) IN
    IF existingTrade = Null
    THEN /\ res' = Response("update", userId, id, 404)
         /\ UNCHANGED trades
    ELSE /\ trades' = Put(id, UpdatedRow(Val(existingTrade), data))
         /\ res' = Response("update", userId, id, 200)

\* router.post('/:id/close') without the check of existingTrade.isOpen
CloseTrade_noOpenCheck(userId, id, body, now) ==
    LET existingTrade == findFirst(id, userId) IN
    IF existingTrade = Null
    THEN /\ res' = Response("close", userId, id, 404)
         /\ UNCHANGED trades
    ELSE /\ Val(existingTrade).fees + Coalesce(body.fees, 0) <= MaxFees
         /\ trades' = Put(id, ClosedRow(Val(existingTrade), body, now))
         /\ res' = Response("close", userId, id, 200)

CloseTrade(userId, id, body, now) ==
    LET existingTrade == findFirst(id, userId) IN
    IF existingTrade = Null
    THEN /\ res' = Response("close", userId, id, 404)
         /\ UNCHANGED trades
    ELSE IF ~Val(existingTrade).isOpen
    THEN /\ res' = Response("close", userId, id, 400)
         /\ UNCHANGED trades
    ELSE /\ Val(existingTrade).fees + Coalesce(body.fees, 0) <= MaxFees
         /\ trades' = Put(id, ClosedRow(Val(existingTrade), body, now))
         /\ res' = Response("close", userId, id, 200)

DeleteTrade(userId, id) ==
    IF findFirst(id, userId) = Null
    THEN /\ res' = Response("delete", userId, id, 404)
         /\ UNCHANGED trades
    ELSE /\ trades' = Remove(id)
         /\ res' = Response("delete", userId, id, 200)

\* The requests.  A request that finds no row is answered 404 whatever its body,
\* so one body stands for all of them.
Create == \E u \in Users, id \in TradeIds, d \in CreateBodies : CreateTrade(u, id, d)

Update ==
    \E u \in Users, id \in RequestIds :
        IF findFirst(id, u) = Null
        THEN UpdateTrade(u, id, CHOOSE d \in UpdateBodies : TRUE)
        ELSE \E d \in UpdateBodies : UpdateTrade(u, id, d)

Close ==
    \E u \in Users, id \in RequestIds :
        IF findFirst(id, u) = Null
        THEN CloseTrade(u, id, CHOOSE b \in CloseBodies : TRUE, CHOOSE now \in Times : TRUE)
        ELSE \E b \in CloseBodies, now \in Times : CloseTrade(u, id, b, now)

Delete == \E u \in Users, id \in RequestIds : DeleteTrade(u, id)

----------------------------------------------------------------------------
(* routes/trades.ts, PUT /:id and POST /:id/close as the event loop runs    *)
(* them: each handler awaits findFirst, computes from the row it was given, *)
(* and then awaits prisma.trade.update({ where: { id }, data }).  Nothing   *)
(* ties the two awaits together (no transaction, no version or isOpen in    *)
(* the where), so steps of other requests can run between them.  The update *)
(* writes the columns of data into the row as it is then.                   *)

Connections == {"c1", "c2"}

\* a request after its findFirst: status is 0 until the response is sent
Request(op, userId, id, body, now, existingTrade, status) ==
    [op |-> op, userId |-> userId, id |-> id, body |-> body, now |-> now,
     existingTrade |-> existingTrade, status |-> status]

Track(c, request) ==
    [k \in DOMAIN requests \cup {c} |-> IF k = c THEN request ELSE requests[k]]

\* prisma.trade.update of PUT /:id on the row as it is now: the columns of
\* ...data, and pnl, pnlPercent and isOpen as computed from existingTrade
UpdateWritten(row, existingTrade, data) ==
    LET computed == UpdatedRow(existingTrade, data)
    IN  [row EXCEPT
            !.position = Coalesce(data.position, row.position),
            !.entryPrice = Coalesce(data.entryPrice, row.entryPrice),
            !.exitPrice = IF data.exitPrice # Null THEN data.exitPrice ELSE row.exitPrice,
            !.quantity = Coalesce(data.quantity, row.quantity),
            !.fees = Coalesce(data.fees, row.fees),
            !.closedAt = IF data.closedAt # Null THEN data.closedAt ELSE row.closedAt,
            !.pnl = computed.pnl,
            !.pnlPercent = computed.pnlPercent,
            !.isOpen = computed.isOpen]

\* prisma.trade.update of POST /:id/close on the row as it is now: the six
\* columns of its data, all computed from existingTrade and the body
CloseWritten(row, existingTrade, body, now) ==
    LET computed == ClosedRow(existingTrade, body, now)
    IN  [row EXCEPT
            !.exitPrice = computed.exitPrice,
            !.closedAt = computed.closedAt,
            !.fees = computed.fees,
            !.pnl = computed.pnl,
            !.pnlPercent = computed.pnlPercent,
            !.isOpen = computed.isOpen]

\* PUT /:id up to its second await
UpdateRead(c, userId, id, data) ==
    LET existingTrade == findFirst(id, userId) IN
    /\ c \notin DOMAIN requests
    /\ IF existingTrade = Null
       THEN /\ requests' = Track(c, Request("update", userId, id, data, 0, Null, 404))
            /\ res' = Response("update", userId, id, 404)
       ELSE /\ requests' = Track(c, Request("update", userId, id, data, 0, existingTrade, 0))
            /\ UNCHANGED res
    /\ UNCHANGED trades

\* PUT /:id from its second await on; the table of this specification loses no row
UpdateWrite(c) ==
    /\ c \in DOMAIN requests
    /\ requests[c].op = "update" /\ requests[c].status = 0
    /\ requests[c].id \in DOMAIN trades
    /\ trades' = Put(requests[c].id,
                     UpdateWritten(trades[requests[c].id], Val(requests[c].existingTrade),
                                   requests[c].body))
    /\ requests' = [requests EXCEPT ![c].status = 200]
    /\ res' = Response("update", requests[c].userId, requests[c].id, 200)

\* POST /:id/close up to its second await; new Date() is taken while data is built
CloseRead(c, userId, id, body, now) ==
    LET existingTrade == findFirst(id, userId) IN
    /\ c \notin DOMAIN requests
    /\ IF existingTrade = Null
       THEN /\ requests' = Track(c, Request("close", userId, id, body, now, Null, 404))
            /\ res' = Response("close", userId, id, 404)
       ELSE IF ~Val(existingTrade).isOpen
       THEN /\ requests' = Track(c, Request("close", userId, id, body, now, existingTrade, 400))
            /\ res' = Response("close", userId, id, 400)
       ELSE /\ Val(existingTrade).fees + Coalesce(body.fees, 0) <= MaxFees
            /\ requests' = Track(c, Request("close", userId, id, body, now, existingTrade, 0))
            /\ UNCHANGED res
    /\ UNCHANGED trades

\* POST /:id/close from its second await on
CloseWrite(c) ==
    /\ c \in DOMAIN requests
    /\ requests[c].op = "close" /\ requests[c].status = 0
    /\ requests[c].id \in DOMAIN trades
    /\ trades' = Put(requests[c].id,
                     CloseWritten(trades[requests[c].id], Val(requests[c].existingTrade),
                                  requests[c].body, requests[c].now))
    /\ requests' = [requests EXCEPT ![c].status = 200]
    /\ res' = Response("close", requests[c].userId, requests[c].id, 200)


----------------------------------------------------------------------------
(* utils/calculations.ts: calculateMetrics and calculateMaxDrawdown *)

\* t.pnl ?? 0
PnlOrZero(t) == Coalesce(t.pnl, 0)

\* the filter without its isOpen test
IsCounted_ignoresIsOpen(t) == t.pnl # Null

\* trades.filter(t => !t.isOpen && t.pnl !== null)
IsCounted(t) == ~t.isOpen /\ t.pnl # Null
closedTradesOf(ts) == SelectSeq(ts, IsCounted)

\* the winners' filter with >= for >
IsWinner_orZero(t) == PnlOrZero(t) >= 0
IsWinner(t) == PnlOrZero(t) > 0
\* the losers' filter with <= for <
IsLoser_orZero(t) == PnlOrZero(t) <= 0
IsLoser(t) == PnlOrZero(t) < 0

\* ts.reduce((sum, t) => sum + (t.pnl ?? 0), 0)
RECURSIVE SumPnl(_)
SumPnl(ts) == IF ts = <<>> THEN 0 ELSE PnlOrZero(Head(ts)) + SumPnl(Tail(ts))

\* the sort key with a null closedAt after every time
CloseKey_nullLast(t) == IF t.closedAt # Null THEN Val(t.closedAt) ELSE 1000000

\* the sort key of calculateMaxDrawdown: closedAt ? getTime() : 0
CloseKey(t) == IF t.closedAt # Null THEN Val(t.closedAt) ELSE 0

\* [...trades].sort((a, b) => dateA - dateB): Array.prototype.sort is stable, so
\* trades with equal keys keep their order
RECURSIVE InsertByKey(_, _)
InsertByKey(sorted, t) ==
    IF sorted = <<>> THEN <<t>>
    ELSE IF CloseKey(Head(sorted)) <= CloseKey(t)
         THEN <<Head(sorted)>> \o InsertByKey(Tail(sorted), t)
         ELSE <<t>> \o sorted

RECURSIVE SortByClose(_)
SortByClose(ts) ==
    IF ts = <<>> THEN <<>>
    ELSE InsertByKey(SortByClose(SubSeq(ts, 1, Len(ts) - 1)), ts[Len(ts)])

\* the loop measuring cumulative - peak against the peak of the steps before
RECURSIVE DrawdownLoop_beforePeak(_, _, _, _, _)
DrawdownLoop_beforePeak(sortedTrades, i, peak, maxDrawdown, cumulative) ==
    IF i > Len(sortedTrades) THEN maxDrawdown
    ELSE LET cumulative1 == cumulative + Coalesce(sortedTrades[i].pnl, 0)
             drawdown == cumulative1 - peak
             peak1 == IF cumulative1 > peak THEN cumulative1 ELSE peak
             maxDrawdown1 == IF drawdown > maxDrawdown THEN drawdown ELSE maxDrawdown
         IN  DrawdownLoop_beforePeak(sortedTrades, i + 1, peak1, maxDrawdown1, cumulative1)

\* the loop of calculateMaxDrawdown over sortedTrades[i..], entered with the
\* values of peak, maxDrawdown and cumulative
RECURSIVE DrawdownLoop(_, _, _, _, _)
DrawdownLoop(sortedTrades, i, peak, maxDrawdown, cumulative) ==
    IF i > Len(sortedTrades) THEN maxDrawdown
    ELSE LET cumulative1 == cumulative + PnlOrZero(sortedTrades[i])
             peak1 == IF cumulative1 > peak THEN cumulative1 ELSE peak
             drawdown == peak1 - cumulative1
             maxDrawdown1 == IF drawdown > maxDrawdown THEN drawdown ELSE maxDrawdown
         IN  DrawdownLoop(sortedTrades, i + 1, peak1, maxDrawdown1, cumulative1)

\* the argument array after a sort of the array itself
tradesAfterDrawdown_sortInPlace(ts) == SortByClose(ts)

\* the argument array after calculateMaxDrawdown: the receiver of sort is the
\* copy [...trades]
tradesAfterDrawdown(ts) == ts

calculateMaxDrawdown(ts) ==
    IF Len(ts) = 0 THEN 0
    ELSE DrawdownLoop(SortByClose(ts), 1, 0, 0, 0)

\* the ratio with 0 where the code has Infinity
profitFactorOf_noInfinity(grossProfit, grossLoss) ==
    IF grossLoss > 0 THEN Rat(grossProfit, grossLoss) ELSE RatInt(0)

\* grossLoss > 0 ? grossProfit / grossLoss : grossProfit > 0 ? Infinity : 0
profitFactorOf(grossProfit, grossLoss) ==
    IF grossLoss > 0 THEN Rat(grossProfit, grossLoss)
    ELSE IF grossProfit > 0 THEN Infinity ELSE RatInt(0)

\* the expectancy of the rounded winRate, avgWin and avgLoss
expectancyOf_roundedInputs(winRate, avgWin, avgLoss) ==
    LET lossRate == RatSub(RatInt(100), Round2(winRate))
    IN  RatSub(RatMul(RatDiv(Round2(winRate), RatInt(100)), Round2(avgWin)),
               RatMul(RatDiv(lossRate, RatInt(100)), Round2(avgLoss)))

\* lossRate = 100 - winRate;
\* expectancy = (winRate / 100) * avgWin - (lossRate / 100) * avgLoss
expectancyOf(winRate, avgWin, avgLoss) ==
    LET lossRate == RatSub(RatInt(100), winRate)
    IN  RatSub(RatMul(RatDiv(winRate, RatInt(100)), avgWin),
               RatMul(RatDiv(lossRate, RatInt(100)), avgLoss))

\* the locals of calculateMetrics after line 67, for a non-empty closedTrades
MetricLocals(closedTrades) ==
    LET winningTrades == SelectSeq(closedTrades, IsWinner)
        losingTrades == SelectSeq(closedTrades, IsLoser)
        grossProfit == SumPnl(winningTrades)
        grossLoss == Abs(SumPnl(losingTrades))
        winRate == IF Len(closedTrades) > 0
                   THEN RatMul(Rat(Len(winningTrades), Len(closedTrades)), RatInt(100))
                   ELSE RatInt(0)
        avgWin == IF Len(winningTrades) > 0 THEN Rat(grossProfit, Len(winningTrades))
                  ELSE RatInt(0)
        avgLoss == IF Len(losingTrades) > 0 THEN Rat(grossLoss, Len(losingTrades))
                   ELSE RatInt(0)
        profitFactor == profitFactorOf(grossProfit, grossLoss)
        maxDrawdown == calculateMaxDrawdown(closedTrades)
        expectancy == expectancyOf(winRate, avgWin, avgLoss)
    IN  [closedTrades |-> tradesAfterDrawdown(closedTrades),
         totalTrades |-> Len(closedTrades),
         winningTrades |-> Len(winningTrades),
         losingTrades |-> Len(losingTrades),
         grossProfit |-> grossProfit,
         grossLoss |-> grossLoss,
         winRate |-> winRate,
         avgWin |-> avgWin,
         avgLoss |-> avgLoss,
         profitFactor |-> profitFactor,
         maxDrawdown |-> RatInt(maxDrawdown),
         expectancy |-> expectancy]

\* the record of the early return
ZeroMetrics ==
    [totalTrades |-> 0, winningTrades |-> 0, losingTrades |-> 0,
     winRate |-> RatInt(0), avgWin |-> RatInt(0), avgLoss |-> RatInt(0),
     profitFactor |-> RatInt(0), maxDrawdown |-> RatInt(0), expectancy |-> RatInt(0)]

\* the record of the final return, from the locals
RoundedMetrics(l) ==
    [totalTrades |-> l.totalTrades,
     winningTrades |-> l.winningTrades,
     losingTrades |-> l.losingTrades,
     winRate |-> Round2(l.winRate),
     avgWin |-> Round2(l.avgWin),
     avgLoss |-> Round2(l.avgLoss),
     profitFactor |-> Round2(l.profitFactor),
     maxDrawdown |-> Round2(l.maxDrawdown),
     expectancy |-> Round2(l.expectancy)]

calculateMetrics(ts) ==
    LET closedTrades == closedTradesOf(ts) IN
    IF Len(closedTrades) = 0 THEN ZeroMetrics
    ELSE RoundedMetrics(MetricLocals(closedTrades))

----------------------------------------------------------------------------
(* Calls of the engine's pure functions *)

\* calculatePnL is total on numbers: its arguments include 0
PnlInputs ==
    [position : Positions, entryPrice : 0..MaxPrice, exitPrice : 0..MaxPrice,
     quantity : 0..MaxQty, fees : Fees]

CallCalculatePnL ==
    /\ pnlArgs # Null
    /\ pnlOut = Null
    /\ pnlOut' = calculatePnL(pnlArgs.position, pnlArgs.entryPrice, pnlArgs.exitPrice,
                              pnlArgs.quantity, pnlArgs.fees)
    /\ UNCHANGED pnlArgs

\* The rows calculateMetrics may be handed are values of the Prisma type Trade,
\* with isOpen, a nullable pnl and a nullable closedAt: closed trades with a pnl,
\* with and without a close time, an open trade that carries a pnl, and a closed
\* trade without pnl.
MetricPnls == {-100, 0, 100}
MetricTimes == {1, 2}

MetricTrades ==
    [isOpen : {FALSE}, pnl : {Some(p) : p \in MetricPnls},
     closedAt : {Some(t) : t \in MetricTimes}]
    \cup {[isOpen |-> FALSE, pnl |-> Some(-100), closedAt |-> Null],
          [isOpen |-> FALSE, pnl |-> Some(100), closedAt |-> Null],
          [isOpen |-> TRUE, pnl |-> Some(100), closedAt |-> Some(1)],
          [isOpen |-> FALSE, pnl |-> Null, closedAt |-> Some(1)]}

MetricInputs == UNION {[1..n -> MetricTrades] : n \in 0..MaxLen}

CallCalculateMetrics ==
    /\ metrics = Null
    /\ metrics' = calculateMetrics(mTrades)
    /\ locals' = IF Len(closedTradesOf(mTrades)) = 0 THEN Null
                 ELSE MetricLocals(closedTradesOf(mTrades))
    /\ UNCHANGED mTrades

----------------------------------------------------------------------------
(* utils/calculations.ts: detectBehaviorWarnings *)

OvertradingLimit == 10
OvertradingHigh == 15
RevengeWindow == 5              \* 5 * 60 * 1000 ms, in minutes
RiskLimit == 2
RiskHigh == 5
RecentCount == 5
LossStreakLimit == 3
LossStreakHigh == 5
DefaultAccountBalance == 10000
MinutesPerDay == 1440

\* 0 / 0
NaN == <<0, 0>>

\* the date set back to the last midnight or noon
StartOfDay_halfDay(t) == t - (t % (MinutesPerDay \div 2))

\* date.setHours(0, 0, 0, 0): local midnight of the day of t
StartOfDay(t) == t - (t % MinutesPerDay)

\* the filter of todayTrades
IsOpenedOn(t, today) == StartOfDay(t.openedAt) = today

\* trades.filter(t => !t.isOpen && t.closedAt)
IsClosedAt(t) == ~t.isOpen /\ t.closedAt # Null

\* A BehaviorWarning.  date is the instant its ISO string denotes; count, asset
\* and percent are the values the message embeds (0, "" and 0 when the
\* message of that type embeds none).
Warning(type, severity, date, count, asset, percent) ==
    [type |-> type, severity |-> severity, date |-> date,
     count |-> count, asset |-> asset, percent |-> percent]

\* the severity with HIGH from 15 trades on
overtradingSeverity_from15(n) == IF n >= OvertradingHigh THEN "HIGH" ELSE "MEDIUM"

overtradingSeverity(n) == IF n > OvertradingHigh THEN "HIGH" ELSE "MEDIUM"

overtradingWarnings(todayTrades, today) ==
    IF Len(todayTrades) > OvertradingLimit
    THEN <<Warning("OVERTRADING", overtradingSeverity(Len(todayTrades)), today,
                   Len(todayTrades), "", <<0, 1>>)>>
    ELSE <<>>

\* the loop without its break
RECURSIVE revengeWarnings_noBreak(_, _)
revengeWarnings_noBreak(closedTrades, i) ==
    IF i > Len(closedTrades) THEN <<>>
    ELSE LET prevTrade == closedTrades[i - 1]
             currTrade == closedTrades[i]
         IN  (IF /\ Truthy(prevTrade.pnl) /\ Val(prevTrade.pnl) < 0
                 /\ prevTrade.closedAt # Null
                 /\ currTrade.openedAt - Val(prevTrade.closedAt) < RevengeWindow
              THEN <<Warning("REVENGE_TRADING", "HIGH", currTrade.openedAt, 0, "", <<0, 1>>)>>
              ELSE <<>>)
             \o revengeWarnings_noBreak(closedTrades, i + 1)

\* the loop over closedTrades[i - 1], closedTrades[i] (1-based: i from 2), left
\* at the first warning
RECURSIVE revengeWarnings(_, _)
revengeWarnings(closedTrades, i) ==
    IF i > Len(closedTrades) THEN <<>>
    ELSE LET prevTrade == closedTrades[i - 1]
             currTrade == closedTrades[i]
         IN  IF /\ Truthy(prevTrade.pnl) /\ Val(prevTrade.pnl) < 0
                /\ prevTrade.closedAt # Null
                /\ currTrade.openedAt - Val(prevTrade.closedAt) < RevengeWindow
             THEN <<Warning("REVENGE_TRADING", "HIGH", currTrade.openedAt, 0, "", <<0, 1>>)>>
             ELSE revengeWarnings(closedTrades, i + 1)

\* (riskAmount / accountBalance) * 100 for riskAmount >= 0: a division by 0
\* gives Infinity, and NaN for 0 / 0
riskPercentOf(riskAmount, accountBalance) ==
    IF accountBalance = 0
    THEN IF riskAmount = 0 THEN NaN ELSE Infinity
    ELSE RatMul(Rat(riskAmount, accountBalance), RatInt(100))

\* x > n for an integer n: false for NaN
Exceeds(x, n) == x # NaN /\ RatLt(RatInt(n), x)

\* x.toFixed(1) for x >= 0: the nearest tenth, a tie going up; "Infinity" and
\* "NaN" for the two values that have no digits
ToFixed1(x) ==
    IF x[2] = 0 THEN x ELSE Rat((2 * x[1] * 10 + x[2]) \div (2 * x[2]), 10)

\* the severity with HIGH from 5 percent on
riskSeverity_from5(riskPercent) ==
    IF riskPercent # NaN /\ ~RatLt(riskPercent, RatInt(RiskHigh)) THEN "HIGH" ELSE "MEDIUM"

riskSeverity(riskPercent) == IF Exceeds(riskPercent, RiskHigh) THEN "HIGH" ELSE "MEDIUM"

\* the loop over todayTrades[i..]
RECURSIVE riskWarnings(_, _, _)
riskWarnings(todayTrades, i, accountBalance) ==
    IF i > Len(todayTrades) THEN <<>>
    ELSE LET trade == todayTrades[i]
             riskAmount == trade.entryPrice * trade.quantity
             riskPercent == riskPercentOf(riskAmount, accountBalance)
         IN  (IF Exceeds(riskPercent, RiskLimit)
              THEN <<Warning("HIGH_RISK", riskSeverity(riskPercent), trade.openedAt,
                             0, trade.asset, ToFixed1(riskPercent))>>
              ELSE <<>>)
             \o riskWarnings(todayTrades, i + 1, accountBalance)

\* s.slice(-k)
SliceLast(s, k) == SubSeq(s, IF Len(s) > k THEN Len(s) - k + 1 ELSE 1, Len(s))

\* the loop from recentClosed[i] down, entered with consecutiveLosses
RECURSIVE consecutiveLossesFrom(_, _, _)
consecutiveLossesFrom(recentClosed, i, consecutiveLosses) ==
    IF i >= 1 /\ Coalesce(recentClosed[i].pnl, 0) < 0
    THEN consecutiveLossesFrom(recentClosed, i - 1, consecutiveLosses + 1)
    ELSE consecutiveLosses

lossWarnings(closedTrades, today) ==
    LET recentClosed == SliceLast(closedTrades, RecentCount)
        consecutiveLosses == consecutiveLossesFrom(recentClosed, Len(recentClosed), 0)
    IN  IF consecutiveLosses >= LossStreakLimit
        THEN <<Warning("CONSECUTIVE_LOSS",
                       IF consecutiveLosses >= LossStreakHigh THEN "HIGH" ELSE "MEDIUM",
                       today, consecutiveLosses, "", <<0, 1>>)>>
        ELSE <<>>

\* detectBehaviorWarnings(ts, accountBalance) when new Date() is clock
detectBehaviorWarnings(ts, accountBalance, clock) ==
    LET today == StartOfDay(clock)
        todayTrades == SelectSeq(ts, LAMBDA t : IsOpenedOn(t, today))
        closedTrades == SelectSeq(ts, IsClosedAt)
    IN  overtradingWarnings(todayTrades, today)
        \o revengeWarnings(closedTrades, 2)
        \o riskWarnings(todayTrades, 1, accountBalance)
        \o lossWarnings(closedTrades, today)

\* the record of a call, put before the one of the call before it
Called(out) ==
    IF calls = <<>> THEN <<[at |-> time, out |-> out]>>
    ELSE <<[at |-> time, out |-> out], calls[1]>>

\* a call of detectBehaviorWarnings(bTrades, bBalance), or of
\* detectBehaviorWarnings(bTrades) where the default value is the balance
CallDetect ==
    /\ calls' = Called(detectBehaviorWarnings(
                           bTrades, Coalesce(bBalance, DefaultAccountBalance), time))
    /\ UNCHANGED <<bTrades, bBalance, time, rows, userBalance, report, tz>>

ClockStart == MinutesPerDay + 120
TickStep == MinutesPerDay \div 2

\* time passes
Tick ==
    /\ time < ClockStart + MaxTicks * TickStep
    /\ time' = time + TickStep
    /\ UNCHANGED <<bTrades, bBalance, calls, rows, userBalance, report, tz>>

----------------------------------------------------------------------------
(* routes/analytics.ts GET /behavior, routes/risk.ts PUT /settings,         *)
(* routes/portfolio.ts PUT /account-balance                                 *)

BehaviorTake == 100

\* orderBy: { openedAt: 'desc' }; rows of one openedAt are left in table order
RECURSIVE InsertByOpened(_, _)
InsertByOpened(sorted, t) ==
    IF sorted = <<>> THEN <<t>>
    ELSE IF Head(sorted).openedAt >= t.openedAt
         THEN <<Head(sorted)>> \o InsertByOpened(Tail(sorted), t)
         ELSE <<t>> \o sorted

RECURSIVE SortByOpenedDesc(_)
SortByOpenedDesc(ts) ==
    IF ts = <<>> THEN <<>>
    ELSE InsertByOpened(SortByOpenedDesc(SubSeq(ts, 1, Len(ts) - 1)), ts[Len(ts)])

\* prisma.trade.findMany({ where: { userId }, orderBy: { openedAt: 'desc' }, take: 100 })
findManyForBehavior(rs) ==
    LET sorted == SortByOpenedDesc(rs)
    IN  SubSeq(sorted, 1, IF Len(sorted) > BehaviorTake THEN BehaviorTake ELSE Len(sorted))

\* GET /behavior: detectBehaviorWarnings(trades), without a balance
GetBehavior ==
    /\ bTrades' = findManyForBehavior(rows)
    /\ bBalance' = Null
    /\ calls' = Called(detectBehaviorWarnings(
                           findManyForBehavior(rows), DefaultAccountBalance, time))
    /\ UNCHANGED <<time, rows, userBalance, report, tz>>

\* the accountBalance of a request body
BodyBalances == {-1, 0, 100000}

\* PUT /settings: accountBalance is optional and z.number().min(0); a body that
\* fails the schema is answered 400 and nothing is written
PutSettings ==
    /\ \E accountBalance \in Opt(BodyBalances) :
          userBalance' = IF accountBalance # Null /\ Val(accountBalance) >= 0
                         THEN accountBalance
                         ELSE userBalance
    /\ UNCHANGED <<bTrades, bBalance, time, calls, rows, report, tz>>

\* PUT /account-balance: a number >= 0, else 400
PutAccountBalance ==
    /\ \E accountBalance \in BodyBalances :
          userBalance' = IF accountBalance < 0 THEN userBalance ELSE Some(accountBalance)
    /\ UNCHANGED <<bTrades, bBalance, time, calls, rows, report, tz>>

----------------------------------------------------------------------------
(* routes/analytics.ts: the reports.  An instant is a number of minutes     *)
(* since 1970-01-01T00:00Z; a Date's UTC fields are read from the instant   *)
(* and its local fields from the instant moved by the server's time zone.   *)

RatAdd(a, b) == Rat(a[1] * b[2] + b[1] * a[2], a[2] * b[2])

\* the <<year, month, day>> of a day counted from 1970-01-01
CivilFromDays(days) ==
    LET z == days + 719468
        era == z \div 146097
        doe == z - era * 146097
        yoe == (doe - doe \div 1460 + doe \div 36524 - doe \div 146096) \div 365
        doy == doe - (365 * yoe + yoe \div 4 - yoe \div 100)
        mp == (5 * doy + 2) \div 153
        d == doy - (153 * mp + 2) \div 5 + 1
        m == IF mp < 10 THEN mp + 3 ELSE mp - 9
        y == yoe + era * 400 + (IF m <= 2 THEN 1 ELSE 0)
    IN  <<y, m, d>>

\* date.toISOString().split('T')[0]: the UTC date, "YYYY-MM-DD"
ISODate(t) == CivilFromDays(t \div MinutesPerDay)

LocalDay(t) == (t + tz) \div MinutesPerDay

\* date.getDay(): 0 is Sunday; 1970-01-01 was a Thursday
getDay(t) == (LocalDay(t) + 4) % 7
getDate(t) == CivilFromDays(LocalDay(t))[3]
\* date.getMonth() is counted from 0
getMonth(t) == CivilFromDays(LocalDay(t))[2] - 1
getFullYear(t) == CivilFromDays(LocalDay(t))[1]

\* date.setDate(day): the local day of the month is replaced, the local time of
\* day kept; a day below 1 falls in the month before
setDate(t, day) == t + (day - getDate(t)) * MinutesPerDay

\* orderBy: { closedAt: 'asc' }; PostgreSQL puts the rows without closedAt last,
\* and rows of one closedAt are left in table order
ClosesBefore(a, b) ==
    /\ a.closedAt # Null
    /\ b.closedAt = Null \/ Val(a.closedAt) < Val(b.closedAt)

RECURSIVE InsertByClosed(_, _)
InsertByClosed(sorted, t) ==
    IF sorted = <<>> THEN <<t>>
    ELSE IF ClosesBefore(t, Head(sorted))
         THEN <<t>> \o sorted
         ELSE <<Head(sorted)>> \o InsertByClosed(Tail(sorted), t)

RECURSIVE SortByClosedAsc(_)
SortByClosedAsc(ts) ==
    IF ts = <<>> THEN <<>>
    ELSE InsertByClosed(SortByClosedAsc(SubSeq(ts, 1, Len(ts) - 1)), ts[Len(ts)])

\* where: { userId: req.userId, isOpen: false }
findManyClosed(rs, userId) ==
    SelectSeq(rs, LAMBDA t : t.userId = userId /\ ~t.isOpen)

Report(route, userId, status, body) ==
    [route |-> route, userId |-> userId, status |-> status, body |-> body]

\* the report of GET /profit-by-period?period=...
PeriodReport(userId, period, body) ==
    [route |-> "profit-by-period", userId |-> userId, status |-> 200, body |-> body,
     period |-> period]

\* GET /equity-curve: trades.map with the running cumulative
RECURSIVE curveOf(_, _)
curveOf(ts, cumulative) ==
    IF ts = <<>> THEN <<>>
    ELSE LET t == Head(ts)
             sum == RatAdd(cumulative, Coalesce(t.pnl, RatInt(0)))
         IN  <<[date |-> IF t.closedAt = Null THEN Null ELSE Some(ISODate(Val(t.closedAt))),
                equity |-> Round2(sum),
                pnl |-> Round2(Coalesce(t.pnl, RatInt(0)))]>>
             \o curveOf(Tail(ts), sum)

\* the reducer keeping the equity of the date's first trade
aggregatePoint_keepsFirstEquity(acc, point) ==
    IF \E i \in 1..Len(acc) : acc[i].date = point.date
    THEN LET i == CHOOSE k \in 1..Len(acc) :
                     /\ acc[k].date = point.date
                     /\ \A j \in 1..(k - 1) : acc[j].date # point.date
         IN  [acc EXCEPT ![i].pnl = RatAdd(acc[i].pnl, point.pnl)]
    ELSE Append(acc, point)

\* the reducer of curve.reduce: acc.find(p => p.date === point.date)
aggregatePoint(acc, point) ==
    IF \E i \in 1..Len(acc) : acc[i].date = point.date
    THEN LET i == CHOOSE k \in 1..Len(acc) :
                     /\ acc[k].date = point.date
                     /\ \A j \in 1..(k - 1) : acc[j].date # point.date
         IN  [acc EXCEPT ![i].equity = point.equity,
                         ![i].pnl = RatAdd(acc[i].pnl, point.pnl)]
    ELSE Append(acc, point)

RECURSIVE aggregated(_, _)
aggregated(acc, curve) ==
    IF curve = <<>> THEN acc
    ELSE aggregated(aggregatePoint(acc, Head(curve)), Tail(curve))

equityCurve(rs, userId) ==
    aggregated(<<>>, curveOf(SortByClosedAsc(findManyClosed(rs, userId)), RatInt(0)))

\* GET /profit-by-period: the key of a trade's bucket
Periods == {"daily", "weekly", "monthly", "yearly"}

periodKey(period, date) ==
    IF period = "daily" THEN ISODate(date)
    ELSE IF period = "weekly"
    THEN LET day == getDay(date)
             diff == getDate(date) - day + (IF day = 0 THEN -6 ELSE 1)
         IN  ISODate(setDate(date, diff))
    ELSE IF period = "monthly" THEN <<getFullYear(date), getMonth(date) + 1>>
    ELSE <<getFullYear(date)>>

\* grouped.set(key, (grouped.get(key) ?? 0) + (trade.pnl ?? 0)); a Map keeps its
\* keys in the order they were first set
groupedSet(grouped, key, pnl) ==
    IF \E i \in 1..Len(grouped) : grouped[i].period = key
    THEN LET i == CHOOSE k \in 1..Len(grouped) : grouped[k].period = key
         IN  [grouped EXCEPT ![i].profit = RatAdd(grouped[i].profit, pnl)]
    ELSE Append(grouped, [period |-> key, profit |-> pnl])

RECURSIVE groupedBy(_, _, _)
groupedBy(grouped, period, ts) ==
    IF ts = <<>> THEN grouped
    ELSE IF Head(ts).closedAt = Null THEN groupedBy(grouped, period, Tail(ts))
    ELSE groupedBy(groupedSet(grouped, periodKey(period, Val(Head(ts).closedAt)),
                              Coalesce(Head(ts).pnl, RatInt(0))),
                   period, Tail(ts))

profitByPeriod(rs, userId, period) ==
    LET grouped == groupedBy(<<>>, period, SortByClosedAsc(findManyClosed(rs, userId)))
    IN  [i \in 1..Len(grouped) |->
            [period |-> grouped[i].period, profit |-> Round2(grouped[i].profit)]]

\* GET /distribution: the three groupings.  byPosition starts with the keys LONG
\* and SHORT; byPosition[trade.position] of any other position is undefined and
\* its .count++ throws a TypeError, which the handler's catch answers with 500
ByPositionKeys == {"LONG", "SHORT"}
ByMarketKeys == {"STOCK", "CRYPTO"}

RECURSIVE SumOfPnl(_)
SumOfPnl(ts) ==
    IF ts = <<>> THEN RatInt(0)
    ELSE RatAdd(Coalesce(Head(ts).pnl, RatInt(0)), SumOfPnl(Tail(ts)))

\* the count and the summed pnl of the trades whose column has the value key
bucketOf(ts, column, key) ==
    LET members == SelectSeq(ts, LAMBDA t : t[column] = key)
    IN  [count |-> Len(members), pnl |-> Round2(SumOfPnl(members))]

distribution(rs, userId) ==
    LET ts == findManyClosed(rs, userId)
        assets == {ts[i].asset : i \in 1..Len(ts)}
    IN  IF \E i \in 1..Len(ts) : ts[i].position \notin ByPositionKeys
        THEN Report("distribution", userId, 500, Null)
        ELSE Report("distribution", userId, 200,
                    Some([byAsset |-> [a \in assets |-> bucketOf(ts, "asset", a)],
                          byMarket |-> [m \in ByMarketKeys |-> bucketOf(ts, "market", m)],
                          byPosition |-> [p \in ByPositionKeys |->
                                             bucketOf(ts, "position", p)]]))

GetEquityCurve ==
    /\ \E u \in Users :
          report' = Report("equity-curve", u, 200, Some(equityCurve(rows, u)))
    /\ UNCHANGED <<bTrades, bBalance, time, calls, rows, userBalance, tz>>

GetProfitByPeriod ==
    /\ \E u \in Users, period \in Periods :
          report' = PeriodReport(u, period, Some(profitByPeriod(rows, u, period)))
    /\ UNCHANGED <<bTrades, bBalance, time, calls, rows, userBalance, tz>>

GetDistribution ==
    /\ \E u \in Users : report' = distribution(rows, u)
    /\ UNCHANGED <<bTrades, bBalance, time, calls, rows, userBalance, tz>>

----------------------------------------------------------------------------
(* The routes that read the Trade table for a caller, and what each route   *)
(* sends back                                                               *)

\* GET /:id
GetTrade(userId, id) ==
    LET trade == findFirst(id, userId) IN
    /\ res' = Response("get", userId, id, IF trade = Null THEN 404 ELSE 200)
    /\ report' = Report("trade", userId, IF trade = Null THEN 404 ELSE 200, trade)
    /\ UNCHANGED trades

\* GET / without query: findMany({ where: { userId } }) and count({ where }).  The
\* rows are sent by openedAt, a column the table of the model leaves out; the
\* body is the rows by id.
findManyOf(userId) ==
    [id \in {k \in DOMAIN trades : trades[k].userId = userId} |-> trades[id]]

ListTrades(userId) ==
    /\ res' = Response("list", userId, "none", 200)
    /\ report' = Report("list", userId, 200,
                        Some([trades |-> findManyOf(userId),
                              total |-> Cardinality(DOMAIN findManyOf(userId))]))
    /\ UNCHANGED trades

\* the Trade table as the rows a report reads: pnl as a stored number
RECURSIVE TableRows(_)
TableRows(ids) ==
    IF ids = {} THEN <<>>
    ELSE LET id == CHOOSE k \in ids : TRUE
             row == trades[id]
         IN  <<[userId |-> row.userId, isOpen |-> row.isOpen, closedAt |-> row.closedAt,
                pnl |-> IF row.pnl = Null THEN Null ELSE Some(RatInt(Val(row.pnl)))]>>
             \o TableRows(ids \ {id})

\* GET /analytics/equity-curve on the table of the /trades router
GetEquityCurveOfTable(userId) ==
    /\ res' = Response("equity-curve", userId, "none", 200)
    /\ report' = Report("equity-curve", userId, 200,
                        Some(equityCurve(TableRows(DOMAIN trades), userId)))
    /\ UNCHANGED trades

\* what PUT /:id, POST /:id/close and DELETE /:id send: res.json(trade) with the
\* row as written, a message after a delete, an error otherwise
Sent ==
    report' = Report(res'.op, res'.userId, res'.status,
                     IF res'.status = 200 /\ res'.id \in DOMAIN trades'
                     THEN Some(trades'[res'.id])
                     ELSE Null)

----------------------------------------------------------------------------
(* The trades handed to detectBehaviorWarnings *)

BehaviorTrade(openedAt, closedAt, isOpen, pnl, entryPrice) ==
    [openedAt |-> openedAt, closedAt |-> closedAt, isOpen |-> isOpen, pnl |-> pnl,
     entryPrice |-> entryPrice, quantity |-> 1, asset |-> "BTC"]

\* 2 and 50 percent of the default balance
RiskPrices == {200, 5000}

\* openedAt and closedAt of closed trades: one closed a minute after midnight,
\* the others opened 3 and 5 minutes after that
ClosedSpans == {<<MinutesPerDay - 10, MinutesPerDay + 1>>,
                <<MinutesPerDay + 4, MinutesPerDay + 10>>,
                <<MinutesPerDay + 6, MinutesPerDay + 12>>}

\* open and closed trades as the router stores them, and the closed rows the
\* Prisma type also allows: without closedAt, without pnl
DetectTrades ==
    {BehaviorTrade(o, Null, TRUE, Null, e) :
        o \in {MinutesPerDay - 10, MinutesPerDay + 4}, e \in RiskPrices}
    \cup {BehaviorTrade(s[1], Some(s[2]), FALSE, Some(p), e) :
        s \in ClosedSpans, p \in {-100, 100}, e \in RiskPrices}
    \cup {BehaviorTrade(MinutesPerDay + 4, Null, FALSE, Some(-100), 200),
          BehaviorTrade(MinutesPerDay + 4, Some(MinutesPerDay + 10), FALSE, Null, 200)}

DetectInputs == UNION {[1..n -> DetectTrades] : n \in 0..MaxWarnLen}

\* the accountBalance argument: none, or one of these
ArgBalances == {0, 100000}

\* a trades opened today and still open, then b opened and closed today, then
\* c opened the day before
DayTrades(a, b, c) ==
    [i \in 1..(a + b + c) |->
        IF i <= a THEN BehaviorTrade(MinutesPerDay + 4, Null, TRUE, Null, 200)
        ELSE IF i <= a + b
             THEN BehaviorTrade(MinutesPerDay + 6, Some(MinutesPerDay + 12), FALSE, Some(100), 200)
             ELSE BehaviorTrade(MinutesPerDay - 10, Null, TRUE, Null, 200)]

DayInputs ==
    {DayTrades(a, b, c) : a \in 0..MaxDay, b \in 0..MaxDay, c \in 0..2}

\* a open trades of today with one entryPrice, then closed trades
ClosedTrades ==
    {BehaviorTrade(s[1], Some(s[2]), FALSE, Some(p), 200) : s \in ClosedSpans, p \in {-100, 100}}

RuleInputs ==
    {[i \in 1..a |-> BehaviorTrade(MinutesPerDay + 4, Null, TRUE, Null, e)] \o cs :
        a \in 0..MaxOpen, e \in RiskPrices,
        cs \in UNION {[1..n -> ClosedTrades] : n \in 0..MaxClosed}}

\* the journal of a user who closed every trade 5 minutes after opening it and
\* opened the next one 5 minutes later, all of it today; 3 percent of the
\* default balance each
JournalRow(i, pnl) ==
    BehaviorTrade(MinutesPerDay + 10 * i, Some(MinutesPerDay + 10 * i + 5), FALSE, Some(pnl), 300)

Journals ==
    UNION {{[i \in 1..n |-> JournalRow(i, ps[i])] : ps \in [1..n -> {-100, 100}]} :
              n \in 0..MaxRows}

----------------------------------------------------------------------------
(* Specifications *)

\* no call of detectBehaviorWarnings yet, an empty journal, the clock at its start
BehaviorIdle ==
    /\ bTrades = <<>>
    /\ bBalance = Null
    /\ time = ClockStart
    /\ calls = <<>>
    /\ rows = <<>>
    /\ userBalance = Some(0)
    /\ report = <<>>
    /\ tz = 0

Init ==
    /\ trades = <<>>
    /\ res = NoResponse
    /\ requests = <<>>
    /\ pnlArgs = Null
    /\ pnlOut = Null
    /\ mTrades = <<>>
    /\ locals = Null
    /\ metrics = Null
    /\ BehaviorIdle

Next ==
    \/ Create /\ UNCHANGED <<requests, pnlVars, metricVars, behaviorVars>>
    \/ Update /\ UNCHANGED <<requests, pnlVars, metricVars, behaviorVars>>
    \/ Close /\ UNCHANGED <<requests, pnlVars, metricVars, behaviorVars>>
    \/ Delete /\ UNCHANGED <<requests, pnlVars, metricVars, behaviorVars>>

\* the /trades router, one request at a time
Spec == Init /\ [][Next]_vars

InitPnL ==
    /\ pnlArgs \in PnlInputs
    /\ pnlOut = Null
    /\ trades = <<>>
    /\ res = NoResponse
    /\ requests = <<>>
    /\ mTrades = <<>>
    /\ locals = Null
    /\ metrics = Null
    /\ BehaviorIdle

NextPnL == CallCalculatePnL /\ UNCHANGED <<storeVars, metricVars, behaviorVars>>

\* one call of calculatePnL
SpecPnL == InitPnL /\ [][NextPnL]_vars

InitMetrics ==
    /\ mTrades \in MetricInputs
    /\ locals = Null
    /\ metrics = Null
    /\ trades = <<>>
    /\ res = NoResponse
    /\ requests = <<>>
    /\ pnlArgs = Null
    /\ pnlOut = Null
    /\ BehaviorIdle

NextMetrics == CallCalculateMetrics /\ UNCHANGED <<storeVars, pnlVars, behaviorVars>>

\* one call of calculateMetrics
SpecMetrics == InitMetrics /\ [][NextMetrics]_vars

\* closed trades with a pnl of a few units, where averages over up to MaxLen
\* trades fall on the third decimal
FinePnls == {-2, -1, 0, 1}
FineTrades == [isOpen : {FALSE}, pnl : {Some(p) : p \in FinePnls}, closedAt : {Some(1)}]
FineInputs == UNION {[1..n -> FineTrades] : n \in 0..MaxLen}

InitMetricsFine ==
    /\ mTrades \in FineInputs
    /\ locals = Null
    /\ metrics = Null
    /\ trades = <<>>
    /\ res = NoResponse
    /\ requests = <<>>
    /\ pnlArgs = Null
    /\ pnlOut = Null
    /\ BehaviorIdle

\* one call of calculateMetrics on trades with small pnl values
SpecMetricsFine == InitMetricsFine /\ [][NextMetrics]_vars

\* the variables of the router and of the other two functions, at rest
OthersIdle ==
    /\ trades = <<>>
    /\ res = NoResponse
    /\ requests = <<>>
    /\ pnlArgs = Null
    /\ pnlOut = Null
    /\ mTrades = <<>>
    /\ locals = Null
    /\ metrics = Null

InitDetect ==
    /\ bTrades \in DetectInputs
    /\ bBalance \in Opt(ArgBalances)
    /\ time = ClockStart
    /\ calls = <<>>
    /\ rows = <<>>
    /\ userBalance = Some(0)
    /\ report = <<>>
    /\ tz = 0
    /\ OthersIdle

NextDetect ==
    \/ CallDetect /\ UNCHANGED <<storeVars, pnlVars, metricVars>>
    \/ Tick /\ UNCHANGED <<storeVars, pnlVars, metricVars>>

\* calls of detectBehaviorWarnings on one Trade[] while time passes
SpecDetect == InitDetect /\ [][NextDetect]_vars

InitDay ==
    /\ bTrades \in DayInputs
    /\ bBalance = Null
    /\ time = ClockStart
    /\ calls = <<>>
    /\ rows = <<>>
    /\ userBalance = Some(0)
    /\ report = <<>>
    /\ tz = 0
    /\ OthersIdle

\* the same calls on a Trade[] of many trades of one day
SpecDay == InitDay /\ [][NextDetect]_vars

InitRules ==
    /\ bTrades \in RuleInputs
    /\ bBalance = Null
    /\ time = ClockStart
    /\ calls = <<>>
    /\ rows = <<>>
    /\ userBalance = Some(0)
    /\ report = <<>>
    /\ tz = 0
    /\ OthersIdle

NextRules == CallDetect /\ UNCHANGED <<storeVars, pnlVars, metricVars>>

\* calls of detectBehaviorWarnings on a Trade[] that can trigger its four rules
SpecRules == InitRules /\ [][NextRules]_vars

InitBehavior ==
    /\ rows \in Journals
    /\ userBalance = Some(0)
    /\ report = <<>>
    /\ tz = 0
    /\ bTrades = <<>>
    /\ bBalance = Null
    /\ time = ClockStart
    /\ calls = <<>>
    /\ OthersIdle

NextBehavior ==
    \/ GetBehavior /\ UNCHANGED <<storeVars, pnlVars, metricVars>>
    \/ PutSettings /\ UNCHANGED <<storeVars, pnlVars, metricVars>>
    \/ PutAccountBalance /\ UNCHANGED <<storeVars, pnlVars, metricVars>>

\* the caller's requests to GET /behavior and to the two balance routes
SpecBehavior == InitBehavior /\ [][NextBehavior]_vars

\* The rows the reports read.  2024-01-01, a Monday, is day NewYearDay of the
\* epoch; the close times lie around it: Saturday noon, Sunday 10:00, Sunday
\* 17:30 and Monday 03:00 UTC.  Pnl values are stored unrounded.
NewYearDay == 19723

\* UTC and UTC+7
Zones == {0, 420}

ReportRow(userId, asset, market, position, closedAt, pnl) ==
    [userId |-> userId, asset |-> asset, market |-> market, position |-> position,
     closedAt |-> closedAt, pnl |-> pnl, isOpen |-> pnl = Null]

ReportRows ==
    LET SaturdayNoon == (NewYearDay - 2) * MinutesPerDay + 720
        SundayMorning == (NewYearDay - 1) * MinutesPerDay + 600
        SundayEvening == (NewYearDay - 1) * MinutesPerDay + 1050
        MondayEarly == NewYearDay * MinutesPerDay + 180
    IN
    {ReportRow("u1", "BTC", "CRYPTO", "BELI", Some(SaturdayNoon), Some(RatInt(250))),
     ReportRow("u1", "BTC", "CRYPTO", "JUAL", Some(SundayMorning), Some(RatInt(-100))),
     ReportRow("u1", "ETH", "CRYPTO", "BELI", Some(SundayMorning), Some(Rat(4, 1000))),
     ReportRow("u1", "ETH", "CRYPTO", "BELI", Some(SundayEvening), Some(Rat(4, 1000))),
     ReportRow("u1", "BBCA", "STOCK", "BELI", Some(SundayEvening), Some(RatInt(250))),
     ReportRow("u1", "BBCA", "STOCK", "JUAL", Some(MondayEarly), Some(RatInt(-100))),
     ReportRow("u1", "BTC", "CRYPTO", "BELI", Null, Null),
     ReportRow("u2", "BTC", "CRYPTO", "BELI", Some(MondayEarly), Some(RatInt(250)))}

ReportJournals == UNION {[1..n -> ReportRows] : n \in 0..MaxReport}

InitReports ==
    /\ rows \in ReportJournals
    /\ tz \in Zones
    /\ report = <<>>
    /\ userBalance = Some(0)
    /\ bTrades = <<>>
    /\ bBalance = Null
    /\ time = ClockStart
    /\ calls = <<>>
    /\ OthersIdle

NextReports ==
    \/ GetEquityCurve /\ UNCHANGED <<storeVars, pnlVars, metricVars>>
    \/ GetProfitByPeriod /\ UNCHANGED <<storeVars, pnlVars, metricVars>>
    \/ GetDistribution /\ UNCHANGED <<storeVars, pnlVars, metricVars>>

\* requests to the three reports over one Trade table
SpecReports == InitReports /\ [][NextReports]_vars

\* A table of two trades: t1 of u1, as router.post('/') stored it, and a closed
\* trade t2 of u2 that no request of this specification addresses.
InitIsolation ==
    /\ \E d \in CreateBodies :
          trades = [id \in {"t1", "t2"} |->
                       IF id = "t1"
                       THEN CreatedRow("u1", d)
                       ELSE CreatedRow("u2", [position |-> "BELI", entryPrice |-> 1,
                                              exitPrice |-> Some(MaxPrice), quantity |-> 1,
                                              fees |-> 0, closedAt |-> Some(MaxTime)])]
    /\ res = NoResponse
    /\ requests = <<>>
    /\ pnlArgs = Null
    /\ pnlOut = Null
    /\ mTrades = <<>>
    /\ locals = Null
    /\ metrics = Null
    /\ BehaviorIdle

NextIsolation ==
    \/ /\ Update /\ Sent
       /\ UNCHANGED <<requests, pnlVars, metricVars,
                      bTrades, bBalance, time, calls, rows, userBalance, tz>>
    \/ /\ Close /\ Sent
       /\ UNCHANGED <<requests, pnlVars, metricVars,
                      bTrades, bBalance, time, calls, rows, userBalance, tz>>
    \/ /\ Delete /\ Sent
       /\ UNCHANGED <<requests, pnlVars, metricVars,
                      bTrades, bBalance, time, calls, rows, userBalance, tz>>
    \/ /\ \E u \in Users, id \in RequestIds : GetTrade(u, id)
       /\ UNCHANGED <<requests, pnlVars, metricVars,
                      bTrades, bBalance, time, calls, rows, userBalance, tz>>
    \/ /\ \E u \in Users : ListTrades(u)
       /\ UNCHANGED <<requests, pnlVars, metricVars,
                      bTrades, bBalance, time, calls, rows, userBalance, tz>>
    \/ /\ \E u \in Users : GetEquityCurveOfTable(u)
       /\ UNCHANGED <<requests, pnlVars, metricVars,
                      bTrades, bBalance, time, calls, rows, userBalance, tz>>

\* requests of two users, one at a time, on a table holding trades of both
SpecIsolation == InitIsolation /\ [][NextIsolation]_vars

\* the table holds one open trade, as router.post('/') stored it for user u1
InitRace ==
    /\ \E d \in {b \in CreateBodies : b.exitPrice = Null /\ b.closedAt = Null} :
          trades = [id \in TradeIds |-> CreatedRow("u1", d)]
    /\ res = NoResponse
    /\ requests = <<>>
    /\ pnlArgs = Null
    /\ pnlOut = Null
    /\ mTrades = <<>>
    /\ locals = Null
    /\ metrics = Null
    /\ BehaviorIdle

\* Two connections, one request each, of either user on the one trade.  A
\* request that finds no row is answered 404 whatever its body.
NextRace ==
    \/ /\ \E c \in Connections, u \in Users, id \in TradeIds :
              IF findFirst(id, u) = Null
              THEN UpdateRead(c, u, id, CHOOSE d \in UpdateBodies : TRUE)
              ELSE \E d \in UpdateBodies : UpdateRead(c, u, id, d)
       /\ UNCHANGED <<pnlVars, metricVars, behaviorVars>>
    \/ /\ \E c \in Connections : UpdateWrite(c)
       /\ UNCHANGED <<pnlVars, metricVars, behaviorVars>>
    \/ /\ \E c \in Connections, u \in Users, id \in TradeIds :
              IF findFirst(id, u) = Null
              THEN CloseRead(c, u, id, CHOOSE b \in CloseBodies : TRUE,
                             CHOOSE now \in Times : TRUE)
              ELSE \E b \in CloseBodies, now \in Times : CloseRead(c, u, id, b, now)
       /\ UNCHANGED <<pnlVars, metricVars, behaviorVars>>
    \/ /\ \E c \in Connections : CloseWrite(c)
       /\ UNCHANGED <<pnlVars, metricVars, behaviorVars>>

\* two concurrent requests to PUT /:id and POST /:id/close on one open trade
SpecRace == InitRace /\ [][NextRace]_vars

----------------------------------------------------------------------------
(* Properties of the /trades router (Spec) *)

\* C1: every stored trade has isOpen true exactly when its exitPrice or its
\* closedAt is null; a closed trade has both.
TradeIsOpenInvariant ==
    \A id \in DOMAIN trades :
        trades[id].isOpen = (trades[id].exitPrice = Null \/ trades[id].closedAt = Null)

\* C1 witness: an update has closed a trade
TradeClosedByUpdate ==
    /\ res.op = "update" /\ res.status = 200
    /\ res.id \in DOMAIN trades
    /\ ~trades[res.id].isOpen
    /\ trades[res.id].exitPrice # Null /\ trades[res.id].closedAt # Null

\* C2: pnl and pnlPercent of a stored trade are null while it is open, and once
\* set they are calculatePnL of the position, entryPrice, exitPrice, quantity and
\* fees the row holds now.
TradePnlInvariant ==
    \A id \in DOMAIN trades :
        LET t == trades[id] IN
        /\ t.isOpen => t.pnl = Null /\ t.pnlPercent = Null
        /\ (t.pnl # Null \/ t.pnlPercent # Null) =>
              /\ t.exitPrice # Null
              /\ t.pnl = Some(calculatePnL(t.position, t.entryPrice, Val(t.exitPrice),
                                           t.quantity, t.fees).pnl)
              /\ t.pnlPercent = Some(calculatePnL(t.position, t.entryPrice, Val(t.exitPrice),
                                                  t.quantity, t.fees).pnlPercent)

\* C2 witness: a close has stored fees and the pnl computed from them
TradeClosedWithFees ==
    /\ res.op = "close" /\ res.status = 200
    /\ res.id \in DOMAIN trades
    /\ trades[res.id].fees > 0
    /\ trades[res.id].pnl # Null

\* C3: a closed trade never becomes open again, and a POST /:id/close of its
\* owner on it is answered 400 and changes no stored field (the same request with
\* another user's token finds no row: 404, and nothing changes either).
ClosedExactlyOnce ==
    [][\A id \in DOMAIN trades :
          ~trades[id].isOpen =>
            /\ id \in DOMAIN trades' => ~trades'[id].isOpen
            /\ (res'.op = "close" /\ res'.id = id) =>
                  /\ trades' = trades
                  /\ res'.status = IF res'.userId = trades[id].userId THEN 400 ELSE 404]_vars

\* C3 witness: a close of an already closed trade has been rejected
CloseRejected ==
    /\ res.op = "close" /\ res.status = 400
    /\ res.id \in DOMAIN trades
    /\ ~trades[res.id].isOpen
    /\ trades[res.id].userId = res.userId

----------------------------------------------------------------------------
(* Properties of calculatePnL (SpecPnL) *)

\* C4: long (BELI) pnl is (exitPrice - entryPrice) * quantity - fees, short (JUAL)
\* pnl is (entryPrice - exitPrice) * quantity - fees; pnlPercent is
\* pnl / (entryPrice * quantity) * 100 when entryPrice * quantity > 0, and 0 when
\* entryPrice * quantity = 0.
PnLFormula ==
    pnlOut # Null =>
        LET a == pnlArgs
            investment == a.entryPrice * a.quantity
        IN  /\ a.position = "BELI" =>
                  pnlOut.pnl = (a.exitPrice - a.entryPrice) * a.quantity - a.fees
            /\ a.position = "JUAL" =>
                  pnlOut.pnl = (a.entryPrice - a.exitPrice) * a.quantity - a.fees
            /\ investment > 0 =>
                  /\ pnlOut.pnlPercent[2] > 0
                  /\ pnlOut.pnlPercent[1] * investment = pnlOut.pnl * 100 * pnlOut.pnlPercent[2]
            /\ investment = 0 => pnlOut.pnlPercent = <<0, 1>>

\* C4 witness: a short trade with fees and a non-zero return
ShortPnLWithFees ==
    /\ pnlOut # Null
    /\ pnlArgs.position = "JUAL" /\ pnlArgs.fees > 0
    /\ pnlArgs.entryPrice * pnlArgs.quantity > 0
    /\ pnlOut.pnlPercent # <<0, 1>>

\* C5: with fees 0, the pnl of a long trade is the negation of the pnl of the
\* short trade with the same entryPrice, exitPrice and quantity.
LongShortSymmetry ==
    (pnlOut # Null /\ pnlArgs.fees = 0) =>
        LET other == IF pnlArgs.position = "BELI" THEN "JUAL" ELSE "BELI" IN
        pnlOut.pnl = -(calculatePnL(other, pnlArgs.entryPrice, pnlArgs.exitPrice,
                                    pnlArgs.quantity, 0).pnl)

\* C5 witness: a trade without fees and with a non-zero pnl
NonZeroPnLWithoutFees ==
    /\ pnlOut # Null
    /\ pnlArgs.fees = 0
    /\ pnlOut.pnl # 0

----------------------------------------------------------------------------
(* Properties of calculateMetrics (SpecMetrics).  The definitions below say *)
(* what the claims say, without the operators that model the code.          *)

\* the trades the claims count: closed, with a pnl
Counts(t) == t.isOpen = FALSE /\ t.pnl # Null
Counted == SelectSeq(mTrades, Counts)
CountedPnl(i) == Val(Counted[i].pnl)

\* the pnl values of the counted trades, in input order
CountedPnls == [i \in 1..Len(Counted) |-> CountedPnl(i)]

RECURSIVE SumSeq(_)
SumSeq(xs) == IF Len(xs) = 0 THEN 0 ELSE xs[1] + SumSeq(SubSeq(xs, 2, Len(xs)))

SetMax(S) == CHOOSE x \in S : \A y \in S : y <= x

AllZero(m) ==
    /\ m.totalTrades = 0 /\ m.winningTrades = 0 /\ m.losingTrades = 0
    /\ m.winRate = <<0, 1>> /\ m.avgWin = <<0, 1>> /\ m.avgLoss = <<0, 1>>
    /\ m.profitFactor = <<0, 1>> /\ m.maxDrawdown = <<0, 1>> /\ m.expectancy = <<0, 1>>

\* C6: the result is that of the closed trades with a pnl alone, whatever open
\* trades and trades without pnl the input also holds; with no such trade every
\* field is 0.
MetricsOfClosedTradesOnly ==
    metrics # Null =>
        /\ metrics = calculateMetrics(Counted)
        /\ Counted = <<>> => AllZero(metrics)

\* C6 witness: an input with an open trade that carries a pnl, and a closed trade
MetricsIgnoredOpenTrade ==
    /\ metrics # Null
    /\ \E i \in 1..Len(mTrades) : mTrades[i].isOpen /\ mTrades[i].pnl # Null
    /\ Counted # <<>>
    /\ metrics.totalTrades = Len(Counted)

\* C7: for a non-empty set of closed trades, winningTrades + losingTrades <=
\* totalTrades, totalTrades is the number of closed trades with a pnl, and the
\* inequality is strict exactly when one of them has pnl = 0.
WinLossPartition ==
    (metrics # Null /\ Counted # <<>>) =>
        /\ metrics.totalTrades = Len(Counted)
        /\ metrics.winningTrades + metrics.losingTrades <= metrics.totalTrades
        /\ (metrics.winningTrades + metrics.losingTrades < metrics.totalTrades)
              <=> (\E i \in 1..Len(Counted) : CountedPnl(i) = 0)

\* C7 witness: a break-even trade counted in neither bucket
BreakEvenTradeCounted ==
    /\ metrics # Null
    /\ \E i \in 1..Len(Counted) : CountedPnl(i) = 0
    /\ metrics.winningTrades > 0 /\ metrics.losingTrades > 0
    /\ metrics.winningTrades + metrics.losingTrades < metrics.totalTrades

\* the close time the claims order by: null is time 0
RefKey(t) == IF t.closedAt = Null THEN 0 ELSE Val(t.closedAt)

\* ts in ascending close time from key k on, trades of one time in input order
RECURSIVE RefSortedFrom(_, _)
RefSortedFrom(ts, k) ==
    IF \A i \in 1..Len(ts) : RefKey(ts[i]) < k THEN <<>>
    ELSE SelectSeq(ts, LAMBDA t : RefKey(t) = k) \o RefSortedFrom(ts, k + 1)

RefSorted(ts) == RefSortedFrom(ts, 0)

\* cumulative pnl after the first j trades of S
RefCumulative(S, j) == SumSeq([i \in 1..j |-> Val(S[i].pnl)])

\* the largest peak - cumulative, the peak being the highest cumulative so far
\* (0 before the first trade)
RefMaxDrawdown(S) ==
    SetMax({0} \cup
           {SetMax({0} \cup {RefCumulative(S, i) : i \in 1..j}) - RefCumulative(S, j) :
               j \in 1..Len(S)})

\* C8 as stated: maxDrawdown >= 0, and maxDrawdown = 0 whenever the pnl values
\* of the closed trades are non-decreasing in close-time order (read for closed
\* trades that all have a close time, as every trade the router closes has).
MaxDrawdownZeroIfPnlNonDecreasing ==
    (metrics # Null /\ \A i \in 1..Len(Counted) : Counted[i].closedAt # Null) =>
        /\ ~RatLt(metrics.maxDrawdown, <<0, 1>>)
        /\ (\A i \in 1..(Len(Counted) - 1) :
                Val(RefSorted(Counted)[i].pnl) <= Val(RefSorted(Counted)[i + 1].pnl))
              => metrics.maxDrawdown = <<0, 1>>

\* C8 amended: maxDrawdown >= 0, and maxDrawdown = 0 whenever the cumulative pnl
\* is non-decreasing in close-time order, that is when no closed trade has pnl < 0.
MaxDrawdownZeroIfNoLoss ==
    metrics # Null =>
        /\ ~RatLt(metrics.maxDrawdown, <<0, 1>>)
        /\ (\A i \in 1..Len(Counted) : CountedPnl(i) >= 0) => metrics.maxDrawdown = <<0, 1>>

\* C8 witness: winning trades only, and no drawdown
NoDrawdownWithoutLoss ==
    /\ metrics # Null
    /\ Len(Counted) >= 2
    /\ \A i \in 1..Len(Counted) : CountedPnl(i) >= 0
    /\ \E i \in 1..Len(Counted) : CountedPnl(i) > 0
    /\ metrics.maxDrawdown = <<0, 1>>

\* C9: maxDrawdown is the largest peak - cumulative over the closed trades taken
\* in ascending close time, a null close time first; +100 then -100 gives 100.
MaxDrawdownAlgorithm ==
    metrics # Null => metrics.maxDrawdown = <<RefMaxDrawdown(RefSorted(Counted)), 1>>

\* C9 witness: the trades +100 then -100, handed over latest first
DrawdownExample ==
    /\ metrics # Null
    /\ mTrades = <<[isOpen |-> FALSE, pnl |-> Some(-100), closedAt |-> Some(2)],
                   [isOpen |-> FALSE, pnl |-> Some(100), closedAt |-> Some(1)]>>
    /\ metrics.maxDrawdown = <<100, 1>>

RefGrossProfit == SumSeq(SelectSeq(CountedPnls, LAMBDA x : x > 0))
RefGrossLoss == Abs(SumSeq(SelectSeq(CountedPnls, LAMBDA x : x < 0)))

\* C10: profitFactor is grossProfit / grossLoss when grossLoss > 0, +Infinity
\* when grossLoss = 0 < grossProfit, and 0 when both are 0; grossProfit is the
\* winners' summed pnl and grossLoss the absolute value of the losers' (>= 0).
ProfitFactorFormula ==
    metrics # Null =>
        IF locals = Null
        THEN RefGrossProfit = 0 /\ RefGrossLoss = 0 /\ metrics.profitFactor = <<0, 1>>
        ELSE /\ locals.grossProfit = RefGrossProfit
             /\ locals.grossLoss = RefGrossLoss
             /\ locals.grossLoss >= 0
             /\ RefGrossLoss > 0 =>
                   /\ locals.profitFactor[2] > 0
                   /\ locals.profitFactor[1] * RefGrossLoss
                         = RefGrossProfit * locals.profitFactor[2]
             /\ (RefGrossLoss = 0 /\ RefGrossProfit > 0) => locals.profitFactor = Infinity
             /\ (RefGrossLoss = 0 /\ RefGrossProfit = 0) => locals.profitFactor = <<0, 1>>

\* C10 witness: grossProfit 300 and grossLoss 100 give 3.0
ProfitFactorExample ==
    /\ metrics # Null /\ locals # Null
    /\ locals.grossProfit = 300 /\ locals.grossLoss = 100
    /\ locals.profitFactor = <<3, 1>>
    /\ metrics.profitFactor = <<3, 1>>

\* the winners and losers of the claims: pnl > 0 and pnl < 0
RefWinners == Len(SelectSeq(CountedPnls, LAMBDA x : x > 0))
RefLosers == Len(SelectSeq(CountedPnls, LAMBDA x : x < 0))

\* a = n / d for a rational a and integers n, d with d > 0
RatIs(a, n, d) == a[2] > 0 /\ a[1] * d = n * a[2]

\* C11: winRate is winners / closed * 100, a value in [0, 100]; avgWin is
\* grossProfit / winners and 0 without winners; avgLoss is grossLoss / losers
\* and 0 without losers; avgWin and avgLoss are never negative.
WinRateAndAverages ==
    (metrics # Null /\ locals # Null) =>
        LET winners == RefWinners
            losers == RefLosers
        IN  /\ RatIs(locals.winRate, winners * 100, Len(Counted))
            /\ ~RatLt(locals.winRate, <<0, 1>>) /\ ~RatLt(<<100, 1>>, locals.winRate)
            /\ IF winners > 0 THEN RatIs(locals.avgWin, RefGrossProfit, winners)
                              ELSE locals.avgWin = <<0, 1>>
            /\ IF losers > 0 THEN RatIs(locals.avgLoss, RefGrossLoss, losers)
                             ELSE locals.avgLoss = <<0, 1>>
            /\ ~RatLt(locals.avgWin, <<0, 1>>) /\ ~RatLt(locals.avgLoss, <<0, 1>>)
            /\ ~RatLt(metrics.avgWin, <<0, 1>>) /\ ~RatLt(metrics.avgLoss, <<0, 1>>)
            /\ ~RatLt(metrics.winRate, <<0, 1>>) /\ ~RatLt(<<100, 1>>, metrics.winRate)

\* C11 witness: 3 wins and 1 loss give a winRate of 75
WinRateExample ==
    /\ metrics # Null /\ locals # Null
    /\ RefWinners = 3 /\ RefLosers = 1 /\ Len(Counted) = 4
    /\ locals.winRate = <<75, 1>> /\ metrics.winRate = <<75, 1>>
    /\ locals.avgWin = <<100, 1>> /\ locals.avgLoss = <<100, 1>>

\* the expectancy formula, exact, on the counted trades
RefExpectancy ==
    LET winners == RefWinners
        losers == RefLosers
        winRate == Rat(winners * 100, Len(Counted))
        avgWin == IF winners > 0 THEN Rat(RefGrossProfit, winners) ELSE <<0, 1>>
        avgLoss == IF losers > 0 THEN Rat(RefGrossLoss, losers) ELSE <<0, 1>>
    IN  RatSub(RatMul(RatDiv(winRate, <<100, 1>>), avgWin),
               RatMul(RatDiv(RatSub(<<100, 1>>, winRate), <<100, 1>>), avgLoss))

\* r is a multiple of 0.01 at most 0.005 away from x
IsRoundingOf(r, x) ==
    /\ 100 % r[2] = 0
    /\ ~RatLt(<<1, 200>>, RatSub(r, x))
    /\ ~RatLt(<<1, 200>>, RatSub(x, r))

\* C12: the expectancy is (winRate/100 * avgWin) - ((100 - winRate)/100 * avgLoss)
\* of the unrounded winRate, avgWin and avgLoss, and the value returned is that
\* number rounded to two decimals.
ExpectancyFormula ==
    (metrics # Null /\ locals # Null) =>
        LET expectancy == RefExpectancy IN
        /\ locals.expectancy = expectancy
        /\ IsRoundingOf(metrics.expectancy, expectancy)

\* C12 witness: 1 win of 100 and 2 losses of 100: the expectancy -33.33..., returned
\* as -33.33, where the rounded winRate 33.33 would give -33.34
ExpectancyExample ==
    /\ metrics # Null /\ locals # Null
    /\ RefWinners = 1 /\ RefLosers = 2 /\ Len(Counted) = 3
    /\ locals.expectancy = <<-100, 3>>
    /\ metrics.winRate = <<3333, 100>>
    /\ metrics.expectancy = <<-3333, 100>>

\* x rounded to two decimals, a tie going away from zero
RefRoundHalfAway(x) ==
    LET m == (2 * Abs(x[1]) * 100 + x[2]) \div (2 * x[2])
    IN  IF x[1] < 0 THEN Rat(-m, 100) ELSE Rat(m, 100)

\* C13 as stated: every returned percentage and currency field is the unrounded
\* value rounded to two decimals with a tie going away from zero, negative
\* values included.
RoundedHalfAwayFromZero ==
    (metrics # Null /\ locals # Null) =>
        /\ metrics.winRate = RefRoundHalfAway(locals.winRate)
        /\ metrics.avgWin = RefRoundHalfAway(locals.avgWin)
        /\ metrics.avgLoss = RefRoundHalfAway(locals.avgLoss)
        /\ locals.profitFactor # Infinity =>
               metrics.profitFactor = RefRoundHalfAway(locals.profitFactor)
        /\ metrics.maxDrawdown = RefRoundHalfAway(locals.maxDrawdown)
        /\ metrics.expectancy = RefRoundHalfAway(locals.expectancy)

----------------------------------------------------------------------------
(* Properties of detectBehaviorWarnings (SpecDetect, SpecDay) and of GET     *)
(* /behavior (SpecBehavior)                                                 *)

\* the warnings of the latest call
Out == calls[1].out
OutOfType(type) == SelectSeq(Out, LAMBDA w : w.type = type)

\* the closed trades of the claims: not open, with a close time
RefClosed(ts) == SelectSeq(ts, LAMBDA t : t.isOpen = FALSE /\ t.closedAt # Null)

RefDistinctCloseTimes(S) ==
    \A i, j \in 1..Len(S) : i # j => S[i].closedAt # S[j].closedAt

\* S, whose close times differ, from the earliest closed trade to the latest
RefAscending(S) ==
    [i \in 1..Len(S) |->
        CHOOSE t \in {S[k] : k \in 1..Len(S)} :
            Cardinality({k \in 1..Len(S) : Val(S[k].closedAt) < Val(t.closedAt)}) = i - 1]

\* some trade was opened less than 5 minutes after the close of the losing
\* trade before it in S
RefRevengePair(S) ==
    \E i \in 1..(Len(S) - 1) :
        /\ S[i].pnl # Null /\ Val(S[i].pnl) < 0
        /\ S[i + 1].openedAt - Val(S[i].closedAt) < 5

\* C14 as stated: whatever the order of the input, there is exactly one
\* REVENGE_TRADING warning, of severity HIGH, if in ascending close-time order
\* some trade follows a losing trade by less than 5 minutes, and none otherwise
\* (read for closed trades that have a pnl and close times that differ).
RevengeRuleInCloseOrder ==
    (/\ calls # <<>>
     /\ RefDistinctCloseTimes(RefClosed(bTrades))
     /\ \A i \in 1..Len(bTrades) : bTrades[i].isOpen = (bTrades[i].pnl = Null)) =>
        /\ Len(OutOfType("REVENGE_TRADING"))
              = IF RefRevengePair(RefAscending(RefClosed(bTrades))) THEN 1 ELSE 0
        /\ \A i \in 1..Len(Out) :
              Out[i].type = "REVENGE_TRADING" => Out[i].severity = "HIGH"

\* S, whose close times differ, from the latest closed trade to the earliest
RefMostRecentFirst(S) == [i \in 1..Len(S) |-> RefAscending(S)[Len(S) + 1 - i]]

\* the number of losing trades at the head of the 5 first trades of S
RefStreak(S) ==
    LET n == IF Len(S) > 5 THEN 5 ELSE Len(S)
        Losing(i) == S[i].pnl # Null /\ Val(S[i].pnl) < 0
    IN  SetMax({k \in 0..n : \A i \in 1..k : Losing(i)})

\* C15 as stated: with the streak of losing trades counted from the most
\* recently closed trade back, within the 5 most recently closed trades of the
\* history GET /behavior supplies, there is one CONSECUTIVE_LOSS warning iff the
\* streak is >= 3; it is HIGH iff the streak is >= 5 and its message states the
\* streak.
LossStreakOfMostRecent ==
    calls # <<>> =>
        LET streak == RefStreak(RefMostRecentFirst(RefClosed(bTrades))) IN
        /\ Len(OutOfType("CONSECUTIVE_LOSS")) = IF streak >= 3 THEN 1 ELSE 0
        /\ \A i \in 1..Len(Out) :
              Out[i].type = "CONSECUTIVE_LOSS" =>
                  /\ Out[i].severity = IF streak >= 5 THEN "HIGH" ELSE "MEDIUM"
                  /\ Out[i].count = streak

\* the local calendar day of an instant
RefDay(t) == t \div 1440

\* the supplied trades, open or closed, opened on the day of the latest call
RefOpenedToday == SelectSeq(bTrades, LAMBDA t : RefDay(t.openedAt) = RefDay(calls[1].at))

\* C16: with n the number of supplied trades, open or closed, opened on the
\* current local day, there is no OVERTRADING warning when n <= 10 and exactly
\* one when n > 10, MEDIUM for 11 <= n <= 15 and HIGH for n > 15, whose message
\* states n.
OvertradingRule ==
    calls # <<>> =>
        LET n == Len(RefOpenedToday) IN
        /\ Len(OutOfType("OVERTRADING")) = IF n > 10 THEN 1 ELSE 0
        /\ \A i \in 1..Len(Out) :
              Out[i].type = "OVERTRADING" =>
                  /\ Out[i].severity = IF n > 15 THEN "HIGH" ELSE "MEDIUM"
                  /\ Out[i].count = n

\* C16 witness: 16 trades opened today, open ones and closed ones, next to
\* trades of the day before: one HIGH warning
OvertradingExample ==
    /\ calls # <<>>
    /\ Len(RefOpenedToday) = 16 /\ Len(bTrades) > 16
    /\ \E i, j \in 1..Len(RefOpenedToday) :
          RefOpenedToday[i].isOpen /\ ~RefOpenedToday[j].isOpen
    /\ Len(OutOfType("OVERTRADING")) = 1
    /\ OutOfType("OVERTRADING")[1].severity = "HIGH"
    /\ OutOfType("OVERTRADING")[1].count = 16

\* the balance of the latest call: the argument, 10000 without one
RefBalance == IF bBalance = Null THEN 10000 ELSE Val(bBalance)

\* riskPercent = entryPrice * quantity / balance * 100 > p, for a balance > 0
RefRiskAbove(t, p) == t.entryPrice * t.quantity * 100 > p * RefBalance

\* C17: against a balance > 0 there is one HIGH_RISK warning for each trade
\* opened today with riskPercent > 2, in their order, and no other; its
\* severity is HIGH iff riskPercent > 5 and MEDIUM otherwise.
OversizedRiskRule ==
    (calls # <<>> /\ RefBalance > 0) =>
        LET offending == SelectSeq(RefOpenedToday, LAMBDA t : RefRiskAbove(t, 2))
            W == OutOfType("HIGH_RISK")
        IN  /\ Len(W) = Len(offending)
            /\ \A i \in 1..Len(W) :
                  /\ W[i].severity = IF RefRiskAbove(offending[i], 5) THEN "HIGH" ELSE "MEDIUM"
                  /\ W[i].date = offending[i].openedAt
                  /\ W[i].asset = offending[i].asset

\* C17 witness: entryPrice 5000, quantity 1 and the balance 10000 give 50 percent
\* and HIGH, next to a trade of the day before with the same risk and no warning
OversizedRiskExample ==
    /\ calls # <<>> /\ RefBalance = 10000
    /\ Len(RefOpenedToday) = 1 /\ Len(bTrades) = 2
    /\ \A i \in 1..2 : bTrades[i].entryPrice = 5000 /\ bTrades[i].quantity = 1
    /\ Len(OutOfType("HIGH_RISK")) = 1
    /\ OutOfType("HIGH_RISK")[1].severity = "HIGH"
    /\ OutOfType("HIGH_RISK")[1].percent = <<50, 1>>

\* the balance the caller has configured, 10000 while there is none (the
\* column is null or at its default 0)
RefConfiguredBalance ==
    IF userBalance # Null /\ Val(userBalance) > 0 THEN Val(userBalance) ELSE 10000

\* the trades of ts opened on the day of t that risk more than 2 percent of
\* the configured balance
RefOversized(ts, t) ==
    SelectSeq(ts, LAMBDA x : /\ RefDay(x.openedAt) = RefDay(t)
                             /\ x.entryPrice * x.quantity * 100 > 2 * RefConfiguredBalance)

\* C18 as stated: the warnings GET /behavior returns are computed against the
\* balance the caller has configured, and against 10000 only while there is
\* none: it returns one HIGH_RISK warning for each trade opened today that
\* risks more than 2 percent of that balance.
BehaviorUsesConfiguredBalance ==
    [][calls' # calls =>
          Len(SelectSeq(calls'[1].out, LAMBDA w : w.type = "HIGH_RISK"))
              = Len(RefOversized(bTrades', time))]_vars

\* C19 as stated: every division guards its denominator and falls back to 0,
\* accountBalance = 0 included: no warning embeds a value that is not a number
\* of digits, and against a balance of 0 the riskPercent is 0, so that no trade
\* is reported as oversized.
DivisionsGuarded ==
    calls # <<>> =>
        /\ \A i \in 1..Len(Out) : Out[i].percent[2] # 0
        /\ bBalance = <<0>> => OutOfType("HIGH_RISK") = <<>>

\* C20 as stated: two calls of detectBehaviorWarnings with the same trades and
\* the same balance return the same warnings.
DetectSameOutputTwice ==
    Len(calls) = 2 => calls[1].out = calls[2].out

\* C20 amended: two calls with the same trades and the same balance on the
\* same local day return the same warnings.
DetectSameOutputSameDay ==
    (Len(calls) = 2 /\ RefDay(calls[1].at) = RefDay(calls[2].at)) =>
        calls[1].out = calls[2].out

\* C20 witness: two calls hours apart on one day, with warnings
DetectCalledTwiceSameDay ==
    /\ Len(calls) = 2
    /\ calls[1].at > calls[2].at
    /\ RefDay(calls[1].at) = RefDay(calls[2].at)
    /\ calls[1].out # <<>>
    /\ calls[1].out = calls[2].out

----------------------------------------------------------------------------
(* Relations between results of calculateMetrics (SpecMetrics)              *)

\* C30 as stated: for a non-empty set of closed trades, break-even trades
\* included, the unrounded expectancy is the mean pnl per closed trade,
\* (grossProfit - grossLoss) / totalTrades (read for trades with a close time).
ExpectancyIsMeanPnl ==
    (/\ metrics # Null /\ locals # Null
     /\ \A i \in 1..Len(mTrades) : mTrades[i].closedAt # Null) =>
        RatIs(locals.expectancy, RefGrossProfit - RefGrossLoss, Len(Counted))

\* the permutations of 1..n
RefPermutations(n) == {f \in [1..n -> 1..n] : \A i, j \in 1..n : i # j => f[i] # f[j]}

\* C29 as stated: every field of the result is the same for every permutation
\* of the input, trades that share a close time included (read for trades that
\* all have a close time).
MetricsOrderIndependent ==
    (metrics # Null /\ \A i \in 1..Len(mTrades) : mTrades[i].closedAt # Null) =>
        \A f \in RefPermutations(Len(mTrades)) :
            calculateMetrics([i \in 1..Len(mTrades) |-> mTrades[f[i]]]) = metrics

----------------------------------------------------------------------------
(* The four rules together (SpecRules)                                      *)

RefReverse(S) == [i \in 1..Len(S) |-> S[Len(S) + 1 - i]]

\* a trade whose riskPercent is above 2: against the balance 0 every trade
\* with a risk amount
RefOffending(t) ==
    IF RefBalance = 0 THEN t.entryPrice * t.quantity > 0 ELSE RefRiskAbove(t, 2)

\* C25: the warnings are those of the overtrading rule, then of the revenge
\* rule, then of the risk rule, then of the loss rule; at most one OVERTRADING,
\* one REVENGE_TRADING and one CONSECUTIVE_LOSS warning and one HIGH_RISK warning
\* for each offending trade opened today; each rule fires on its own condition
\* on the trades as supplied, whatever the other rules emit.
RulesIndependentInOrder ==
    calls # <<>> =>
        LET over == OutOfType("OVERTRADING")
            revenge == OutOfType("REVENGE_TRADING")
            risk == OutOfType("HIGH_RISK")
            loss == OutOfType("CONSECUTIVE_LOSS")
        IN  /\ Out = over \o revenge \o risk \o loss
            /\ Len(over) = IF Len(RefOpenedToday) > 10 THEN 1 ELSE 0
            /\ Len(revenge) = IF RefRevengePair(RefClosed(bTrades)) THEN 1 ELSE 0
            /\ Len(risk) = Len(SelectSeq(RefOpenedToday, RefOffending))
            /\ Len(loss) = IF RefStreak(RefReverse(RefClosed(bTrades))) >= 3 THEN 1 ELSE 0

\* C25 witness: one call in which all four rules fire, with several HIGH_RISK
\* warnings
AllFourRulesFire ==
    /\ calls # <<>>
    /\ Len(OutOfType("OVERTRADING")) = 1
    /\ Len(OutOfType("REVENGE_TRADING")) = 1
    /\ Len(OutOfType("HIGH_RISK")) > 1
    /\ Len(OutOfType("CONSECUTIVE_LOSS")) = 1
    /\ Out[1].type = "OVERTRADING" /\ Out[2].type = "REVENGE_TRADING"
    /\ Out[Len(Out)].type = "CONSECUTIVE_LOSS"

----------------------------------------------------------------------------
(* The engine's inputs                                                      *)

----------------------------------------------------------------------------
(* Properties of concurrent requests on one trade (SpecRace) *)

\* the owner's requests of one route that were sent 200
Succeeded(op) ==
    {c \in DOMAIN requests : requests[c].op = op /\ requests[c].status = 200}

\* C26: once a PUT /:id and a POST /:id/close that both read the trade while it
\* was open have both completed, in whatever order their reads and writes ran,
\* the stored trade does not have exitPrice and closedAt set while isOpen is true
\* or pnl is null, and its pnl is calculatePnL of its stored fields.
RaceKeepsTradeInvariants ==
    \A u \in Succeeded("update"), c \in Succeeded("close") :
        (/\ requests[u].id = requests[c].id
         /\ Val(requests[u].existingTrade).isOpen) =>
            LET t == trades[requests[u].id] IN
            /\ (t.exitPrice # Null /\ t.closedAt # Null) => (~t.isOpen /\ t.pnl # Null)
            /\ t.pnl # Null =>
                  /\ t.exitPrice # Null
                  /\ t.pnl = Some(calculatePnL(t.position, t.entryPrice, Val(t.exitPrice),
                                               t.quantity, t.fees).pnl)

\* C27: of two POST /:id/close requests on the same open trade at most one is
\* answered 200 (the other 400), and the stored exitPrice, closedAt, fees and pnl
\* are those the one successful close wrote.
OneCloseSucceeds ==
    \A c, d \in Succeeded("close") :
        requests[c].id = requests[d].id => c = d

----------------------------------------------------------------------------
(* Properties of the reports (SpecReports) *)

\* the caller's closed trades, and the sum of a sequence of numbers
RefMine == SelectSeq(rows, LAMBDA t : t.userId = report.userId /\ ~t.isOpen)

RECURSIVE RefTotal(_)
RefTotal(ts) == IF ts = <<>> THEN RatInt(0) ELSE RatAdd(Val(Head(ts).pnl), RefTotal(Tail(ts)))

RECURSIVE RefSumOf(_, _)
RefSumOf(f, S) ==
    IF S = {} THEN RatInt(0)
    ELSE LET x == CHOOSE y \in S : TRUE IN RatAdd(f[x], RefSumOf(f, S \ {x}))

\* C22: the distribution report answers 200 and, in each of its three groupings,
\* the counts add up to the number of the caller's closed trades and the pnl
\* values to their total pnl.
DistributionAddsUp ==
    (report # <<>> /\ report.route = "distribution") =>
        /\ report.status = 200
        /\ \A g \in {"byAsset", "byMarket", "byPosition"} :
              LET buckets == Val(report.body)[g] IN
              /\ RefSumOf([k \in DOMAIN buckets |-> RatInt(buckets[k].count)],
                          DOMAIN buckets) = RatInt(Len(RefMine))
              /\ RefSumOf([k \in DOMAIN buckets |-> buckets[k].pnl], DOMAIN buckets)
                    = RefTotal(RefMine)

\* the days (counted from the epoch, in UTC) on which the caller's trades closed,
\* the i-th of them, and the caller's trades closed on a day or up to it
RefDayOf(t) == Val(t.closedAt) \div MinutesPerDay
RefCloseDays == {RefDayOf(RefMine[i]) : i \in 1..Len(RefMine)}
RefNthDay(i) == CHOOSE d \in RefCloseDays : Cardinality({e \in RefCloseDays : e < d}) = i - 1
RefClosedOn(day) == SelectSeq(RefMine, LAMBDA t : RefDayOf(t) = day)
RefClosedUpTo(day) == SelectSeq(RefMine, LAMBDA t : RefDayOf(t) <= day)

\* year-month-day order
RefDateBefore(a, b) ==
    \/ a[1] < b[1]
    \/ a[1] = b[1] /\ a[2] < b[2]
    \/ a[1] = b[1] /\ a[2] = b[2] /\ a[3] < b[3]

RECURSIVE RefRoundedTotal(_)
RefRoundedTotal(ts) ==
    IF ts = <<>> THEN RatInt(0)
    ELSE RatAdd(Round2(Val(Head(ts).pnl)), RefRoundedTotal(Tail(ts)))

\* one point per close date, in ascending date order
RefOnePointPerDate(curve) ==
    /\ Len(curve) = Cardinality(RefCloseDays)
    /\ \A i \in 1..Len(curve) : curve[i].date = Some(CivilFromDays(RefNthDay(i)))
    /\ \A i \in 1..(Len(curve) - 1) :
          RefDateBefore(Val(curve[i].date), Val(curve[i + 1].date))

RefPeriodKey(period, day) ==
    IF period = "daily" THEN CivilFromDays(day)
    ELSE IF period = "weekly" THEN CivilFromDays(day - ((day + 3) % 7))
    ELSE IF period = "monthly" THEN <<CivilFromDays(day)[1], CivilFromDays(day)[2]>>
    ELSE <<CivilFromDays(day)[1]>>

\* the buckets of a report are those of its trades' periods, with days read in
\* the time zone ahead of UTC by zone minutes
RefBucketsIn(zone) ==
    LET body == Val(report.body)
        keyOf(t) == RefPeriodKey(report.period, (Val(t.closedAt) + zone) \div MinutesPerDay)
    IN  /\ \A i, j \in 1..Len(body) : body[i].period = body[j].period => i = j
        /\ {body[i].period : i \in 1..Len(body)} = {keyOf(RefMine[k]) : k \in 1..Len(RefMine)}
        /\ \A i \in 1..Len(body) :
              body[i].profit =
                  Round2(RefTotal(SelectSeq(RefMine, LAMBDA t : keyOf(t) = body[i].period)))

\* C24: in a profit-by-period report every closed trade is in exactly one
\* bucket, that of the period (day, week from Monday, month, year) holding its
\* close time; two trades share a bucket iff they closed in the same period, a
\* bucket is keyed by its period's start and its value is the sum of its trades'
\* pnl.  Periods are read in UTC or in the server's time zone, whichever fits,
\* a month is keyed by year and month, and values are compared to two decimals.
ProfitByPeriodBuckets ==
    (report # <<>> /\ report.route = "profit-by-period") =>
        RefBucketsIn(0) \/ RefBucketsIn(tz)

----------------------------------------------------------------------------
(* Properties of requests of two users (SpecIsolation) *)

\* the rows of one user, as a report reads them
RefRowsOf(userId) ==
    TableRows({id \in DOMAIN trades : trades[id].userId = userId})

\* C28: a request with user A's token never returns, updates, closes or deletes
\* a trade of another user B: on B's trade it is answered 404 with no trade in
\* the body and the table is left as it was, no request of A changes a trade of
\* B, and the list and the equity curve sent to A are those of A's trades alone.
UserIsolation ==
    [][LET A == res'.userId IN
       /\ (res'.id \in DOMAIN trades /\ trades[res'.id].userId # A) =>
             /\ res'.status = 404
             /\ report'.body = Null
             /\ trades' = trades
       /\ \A id \in DOMAIN trades :
             trades[id].userId # A => (id \in DOMAIN trades' /\ trades'[id] = trades[id])
       /\ (report'.route \in {"trade", "update", "close"} /\ report'.body # Null) =>
             Val(report'.body).userId = A
       /\ report'.route = "list" =>
             /\ \A id \in DOMAIN Val(report'.body).trades :
                   Val(report'.body).trades[id].userId = A
             /\ DOMAIN Val(report'.body).trades =
                   {id \in DOMAIN trades : trades[id].userId = A}
       /\ report'.route = "equity-curve" =>
             report'.body = Some(equityCurve(RefRowsOf(A), A))]_vars

\* C28 witness: u2 asked to delete the closed trade t1 of u1 and was answered
\* 404; the trades of both users are in the table
DeleteOfOthersTradeRejected ==
    /\ res = Response("delete", "u2", "t1", 404)
    /\ report.body = Null
    /\ "t1" \in DOMAIN trades /\ trades["t1"].userId = "u1" /\ ~trades["t1"].isOpen
    /\ "t2" \in DOMAIN trades /\ trades["t2"].userId = "u2"

====
